---- MODULE Spec2Model ----
(***************************************************************************)
(* Verification model of the magnet sandbox (magnet01.js): the body        *)
(* collection, the per-frame physics step (updatePhysics: magnetic forces, *)
(* integrator, SAT collision solver) and the pointer / menu handlers.      *)
(*                                                                         *)
(* Numbers.  The program computes in IEEE doubles.  The model computes in  *)
(* fixed point: every length, velocity, force, mass and angle is an        *)
(* integer number of hundredths (SC = 100), so 15.00 is 1500.  A product   *)
(* of two fixed-point numbers has scale SC*SC and is brought back with     *)
(* RDiv, which rounds to nearest and is symmetric in the sign, like the    *)
(* IEEE operations it stands for.  Where the source computes one           *)
(* expression, the model rounds once, at the end of that expression.       *)
(*                                                                         *)
(* Style.  A value the source keeps in a local const is passed on as the   *)
(* argument of a helper operator (fooWith...), so that it is computed once. *)
(***************************************************************************)
EXTENDS Integers, Sequences, FiniteSets, TLC

\* Fixed-point scale: hundredths.
SC == 10 * 10

Abs(a) == IF a < 0 THEN 0 - a ELSE a
Max(a, b) == IF a > b THEN a ELSE b
Min(a, b) == IF a < b THEN a ELSE b

\* a / b for b > 0, rounded to the nearest integer, halves away from zero.
RDiv(a, b) ==
  IF a >= 0 THEN (2 * a + b) \div (2 * b) ELSE 0 - ((b - 2 * a) \div (2 * b))

\* a / b for any b # 0.
SDiv(a, b) == IF b > 0 THEN RDiv(a, b) ELSE RDiv(0 - a, 0 - b)

\* Fixed-point number (scale SC) of a number of whole units.
Fx(u) == u * SC

RECURSIVE SqrtSearch(_, _, _)
SqrtSearch(n, lo, hi) ==
  IF lo >= hi THEN lo
  ELSE IF ((lo + hi + 1) \div 2) * ((lo + hi + 1) \div 2) <= n
       THEN SqrtSearch(n, (lo + hi + 1) \div 2, hi)
       ELSE SqrtSearch(n, lo, ((lo + hi + 1) \div 2) - 1)

\* Math.sqrt on an integer, rounded to the nearest integer.
ISqrt(n) ==
  LET r == SqrtSearch(n, 0, Min(n, 46340))
  IN  IF n - r * r > r THEN r + 1 ELSE r

\* sqrt(x*x + y*y) of two fixed-point numbers, as a fixed-point number.
\* Large operands are scaled down until the squares fit the integer width.
RECURSIVE Hypot(_, _)
Hypot(x, y) ==
  IF Abs(x) < 30000 /\ Abs(y) < 30000
  THEN ISqrt(x * x + y * y)
  ELSE 16 * Hypot(RDiv(x, 16), RDiv(y, 16))

----------------------------------------------------------------------------
\* Trigonometry on fixed-point radians.

\* Math.PI / 2 and Math.PI / 4 (the increment of a tap), in hundredths.
HALF_PI == 157
QUARTER_PI == 79
PI == 2 * HALF_PI
TWO_PI == 4 * HALF_PI

\* Angle reduced to (-PI, PI].
RECURSIVE WrapAngle(_)
WrapAngle(a) ==
  IF a > PI THEN WrapAngle(a - TWO_PI)
  ELSE IF a <= 0 - PI THEN WrapAngle(a + TWO_PI)
  ELSE a

\* 1 - q/k1 * (1 - q/k2 * (1 - q/k3)) for q = a*a: the Taylor polynomial of
\* cos (k = 2, 12, 30) and of sin(a)/a (k = 6, 20, 42), scale SC*SC.
TaylorEven(q, k1, k2, k3) ==
  10000 - RDiv(q * (10000 - RDiv(q * (10000 - RDiv(q, k3)), 10000 * k2)), 10000 * k1)

\* cos and sin on [0, HALF_PI], scale SC.
CosPoly(a) == RDiv(TaylorEven(a * a, 2, 12, 30), SC)
SinPoly(a) == RDiv(a * TaylorEven(a * a, 6, 20, 42), 10000)

\* Math.cos and Math.sin.
Cos(angle) ==
  LET a == Abs(WrapAngle(angle))
  IN  IF a <= HALF_PI THEN CosPoly(a) ELSE 0 - CosPoly(PI - a)

Sin(angle) ==
  LET w == WrapAngle(angle)
  IN  (IF w < 0 THEN 0 - 1 ELSE 1)
      * SinPoly(IF Abs(w) <= HALF_PI THEN Abs(w) ELSE PI - Abs(w))

\* atan on [0, 1] by the polynomial z * (PI/4 + 0.273 * (1 - z)).
AtanUnit(z) == RDiv(z * (QUARTER_PI + RDiv(27 * (SC - z), SC)), SC)

\* Math.atan2(y, x) in fixed-point radians: the angle a0 of (|x|, |y|) in
\* the first quadrant, placed in the quadrant of (x, y).
Atan2(y, x) ==
  LET a0 == IF x = 0 /\ y = 0 THEN 0
            ELSE IF Abs(x) >= Abs(y) THEN AtanUnit(RDiv(Abs(y) * SC, Abs(x)))
            ELSE HALF_PI - AtanUnit(RDiv(Abs(x) * SC, Abs(y)))
  IN  (IF y < 0 THEN 0 - 1 ELSE 1) * (IF x < 0 THEN PI - a0 ELSE a0)

----------------------------------------------------------------------------
\* Vector helpers (Vec2).  A vector is a record [x, y].

Vec(x, y) == [x |-> x, y |-> y]
Vec2Add(v1, v2) == Vec(v1.x + v2.x, v1.y + v2.y)
Vec2Sub(v1, v2) == Vec(v1.x - v2.x, v1.y - v2.y)
Vec2Mag(v) == Hypot(v.x, v.y)
\* v / |v|, the zero vector for a zero v.
Vec2Norm(v) ==
  LET m == Hypot(v.x, v.y)
  IN  IF m = 0 THEN Vec(0, 0) ELSE Vec(RDiv(v.x * SC, m), RDiv(v.y * SC, m))
\* v * s for a fixed-point scalar s.
Vec2Scale(v, s) == Vec(RDiv(v.x * s, SC), RDiv(v.y * s, SC))
\* Dot and cross products, rounded once.
Vec2Dot(v1, v2) == RDiv(v1.x * v2.x + v1.y * v2.y, SC)
Vec2Cross(v1, v2) == RDiv(v1.x * v2.y - v1.y * v2.x, SC)
RotateWith(v, c, s) ==
  Vec(RDiv(v.x * c - v.y * s, SC), RDiv(v.x * s + v.y * c, SC))
Vec2Rotate(v, angle) == RotateWith(v, Cos(angle), Sin(angle))

----------------------------------------------------------------------------
\* Components (class Component).

\* The kinds the toolbox offers.
Kinds == {"bar_magnet", "compass", "iron_nail", "key", "coin", "eraser"}

\* Component.setSize: width, height (fixed point) and mass (fixed point).
setSize(type) ==
  IF type = "bar_magnet" THEN [width |-> Fx(80), height |-> Fx(40), mass |-> 1000]
  ELSE IF type = "iron_nail" THEN [width |-> Fx(80), height |-> Fx(20), mass |-> 50]
  ELSE IF type = "compass" THEN [width |-> Fx(60), height |-> Fx(60), mass |-> 100]
  ELSE IF type = "key" THEN [width |-> Fx(60), height |-> Fx(30), mass |-> 20]
  ELSE IF type = "eraser" THEN [width |-> Fx(50), height |-> Fx(30), mass |-> 50]
  ELSE IF type = "coin" THEN [width |-> Fx(40), height |-> Fx(40), mass |-> 20]
  ELSE [width |-> Fx(60), height |-> Fx(60), mass |-> 100]

\* this.momentInertia, in whole units.
MOMENT_INERTIA == 1000

\* new Component(type, x, y)
NewComponent(type, x, y) ==
  [type |-> type, x |-> x, y |-> y, rotation |-> 0,
   vx |-> 0, vy |-> 0, angV |-> 0,
   mass |-> setSize(type).mass, isStatic |-> FALSE, needleAngle |-> 0,
   width |-> setSize(type).width, height |-> setSize(type).height]

Pos(c) == Vec(c.x, c.y)
Vel(c) == Vec(c.vx, c.vy)

\* Component.getCorners: the four corners in world space, in the order of
\* the source: (-hw,-hh), (hw,-hh), (hw,hh), (-hw,hh).
getCorners(c) ==
  LET hw == c.width \div 2
      hh == c.height \div 2
      cs == Cos(c.rotation)
      sn == Sin(c.rotation)
  IN  [i \in 1..4 |->
         Vec2Add(Pos(c),
                 RotateWith(Vec(IF i \in {2, 3} THEN hw ELSE 0 - hw,
                                IF i \in {3, 4} THEN hh ELSE 0 - hh), cs, sn))]

\* Inset of a pole from the end of the magnet (hw - 10).
POLE_INSET == 10

\* A pole of c at local x = reach.
poleAt(c, type, reach) ==
  [type |-> type, strength |-> 1,
   pos |-> Vec2Add(Pos(c), Vec2Rotate(Vec(reach, 0), c.rotation))]

\* Component.getPoles: [N, S] of a bar magnet in world space, none otherwise.
getPoles(c) ==
  IF c.type = "bar_magnet"
  THEN << poleAt(c, "N", 0 - ((c.width \div 2) - Fx(POLE_INSET))),
          poleAt(c, "S", (c.width \div 2) - Fx(POLE_INSET)) >>
  ELSE << >>

\* Component.applyForce(force, worldPoint): the body after the call.
\* torque = r.x * force.y - r.y * force.x with r = worldPoint - position.
applyForce(c, force, worldPoint) ==
  IF c.isStatic THEN c
  ELSE [c EXCEPT
          !.vx = @ + RDiv(force.x * SC, c.mass),
          !.vy = @ + RDiv(force.y * SC, c.mass),
          !.angV = @ + RDiv((worldPoint.x - c.x) * force.y
                            - (worldPoint.y - c.y) * force.x,
                            SC * MOMENT_INERTIA)]

----------------------------------------------------------------------------
\* SAT collision test.  A polygon is a sequence of points; a projection is
\* a record [min, max]; NoHit stands for the null result.

NoHit == [hit |-> FALSE, overlap |-> 0, axis |-> Vec(0, 0)]

\* getAxes: the normalised normal of every edge.
getAxes(poly) ==
  [i \in 1..Len(poly) |->
     Vec2Norm(Vec(0 - (poly[(i % Len(poly)) + 1].y - poly[i].y),
                  poly[(i % Len(poly)) + 1].x - poly[i].x))]

RECURSIVE ProjMin(_, _, _)
ProjMin(poly, axis, i) ==
  IF i = Len(poly) THEN Vec2Dot(poly[i], axis)
  ELSE Min(Vec2Dot(poly[i], axis), ProjMin(poly, axis, i + 1))

RECURSIVE ProjMax(_, _, _)
ProjMax(poly, axis, i) ==
  IF i = Len(poly) THEN Vec2Dot(poly[i], axis)
  ELSE Max(Vec2Dot(poly[i], axis), ProjMax(poly, axis, i + 1))

\* project: the interval a polygon covers on an axis.
project(poly, axis) == [min |-> ProjMin(poly, axis, 1), max |-> ProjMax(poly, axis, 1)]

overlaps(p1, p2) == p1.max >= p2.min /\ p2.max >= p1.min

getOverlap(p1, p2) == Min(p1.max, p2.max) - Max(p1.min, p2.min)

\* The better of the result so far and overlap o on axis (hit = FALSE in
\* best stands for overlap = Infinity).
betterOf(best, o, axis) ==
  IF ~best.hit \/ o < best.overlap
  THEN [hit |-> TRUE, overlap |-> o, axis |-> axis]
  ELSE best

\* The loop of satTest from axis i on.
RECURSIVE SatLoop(_, _, _, _, _)
SatLoop(poly1, poly2, axes, i, best) ==
  IF i > Len(axes) THEN best
  ELSE LET p1Proj == project(poly1, axes[i])
           p2Proj == project(poly2, axes[i])
       IN  IF ~overlaps(p1Proj, p2Proj) THEN NoHit
           ELSE SatLoop(poly1, poly2, axes, i + 1,
                        betterOf(best, getOverlap(p1Proj, p2Proj), axes[i]))

\* satTest(poly1, poly2): NoHit, or the least overlap and its axis.
satTest(poly1, poly2) ==
  SatLoop(poly1, poly2, getAxes(poly1) \o getAxes(poly2), 1, NoHit)

----------------------------------------------------------------------------
\* SAT collision resolver (resolveCollision).  Every part takes the pair of
\* bodies and yields the pair after it, as a record [c1, c2].

Pair(c1, c2) == [c1 |-> c1, c2 |-> c2]

\* Mass a dragged body counts for in the positional correction.
STATIC_MASS == 10000
\* Mass a dragged body counts for in the velocity weld.
WELD_STATIC_MASS == 100000
\* Relative speed below which a touching pair is welded.
WELD_SPEED == 3
\* Mass ratio beyond which the heavier body counts as immovable.
HEAVY_RATIO == 10

\* correctionRatios by mass alone, without the infinite-mass overrides.
correctionRatiosByMass(c1, c2) ==
  LET totalMass == (IF c1.isStatic THEN Fx(STATIC_MASS) ELSE c1.mass)
                   + (IF c2.isStatic THEN Fx(STATIC_MASS) ELSE c2.mass)
  IN  [m1Ratio |-> IF c1.isStatic THEN [n |-> 0, d |-> 1]
                   ELSE [n |-> c2.mass, d |-> totalMass],
       m2Ratio |-> IF c2.isStatic THEN [n |-> 0, d |-> 1]
                   ELSE [n |-> c1.mass, d |-> totalMass]]

\* m1Ratio and m2Ratio, each as a fraction [n, d] (value n / d): by mass,
\* then the two infinite-mass overrides in the order of the source.
correctionRatios(c1, c2) ==
  LET totalMass == (IF c1.isStatic THEN Fx(STATIC_MASS) ELSE c1.mass)
                   + (IF c2.isStatic THEN Fx(STATIC_MASS) ELSE c2.mass)
      heavy1 == c1.mass > HEAVY_RATIO * c2.mass /\ ~c1.isStatic
      heavy2 == c2.mass > HEAVY_RATIO * c1.mass /\ ~c2.isStatic
  IN  [m1Ratio |-> IF heavy2 THEN [n |-> 1, d |-> 1]
                   ELSE IF heavy1 \/ c1.isStatic THEN [n |-> 0, d |-> 1]
                   ELSE [n |-> c2.mass, d |-> totalMass],
       m2Ratio |-> IF heavy2 THEN [n |-> 0, d |-> 1]
                   ELSE IF heavy1 THEN [n |-> 1, d |-> 1]
                   ELSE IF c2.isStatic THEN [n |-> 0, d |-> 1]
                   ELSE [n |-> c1.mass, d |-> totalMass]]

\* The separation vector: axis * overlap, turned to point from c2 to c1.
separation(c1, c2, result) ==
  LET sep == Vec2Scale(result.axis, result.overlap)
  IN  IF sep.x * (c1.x - c2.x) + sep.y * (c1.y - c2.y) < 0
      THEN Vec(0 - sep.x, 0 - sep.y)
      ELSE sep

\* Relative speed of the pair.
relSpeed(c1, c2) == Hypot(c1.vx - c2.vx, c1.vy - c2.vy)

\* correctionFactor that separates a welded pair too.
correctionFactorAlways(c1, c2) == 1

\* correctionFactor: 0 for a pair that will be welded, 1 otherwise.
correctionFactor(c1, c2) == IF relSpeed(c1, c2) < Fx(WELD_SPEED) THEN 0 ELSE 1

\* positionalCorrection without the isStatic guards.
positionalCorrectionUnguarded(c1, c2, sep) ==
  LET rt == correctionRatios(c1, c2)
      cf == correctionFactor(c1, c2)
  IN  Pair([c1 EXCEPT !.x = @ + RDiv(sep.x * rt.m1Ratio.n * cf, rt.m1Ratio.d),
                      !.y = @ + RDiv(sep.y * rt.m1Ratio.n * cf, rt.m1Ratio.d)],
           [c2 EXCEPT !.x = @ - RDiv(sep.x * rt.m2Ratio.n * cf, rt.m2Ratio.d),
                      !.y = @ - RDiv(sep.y * rt.m2Ratio.n * cf, rt.m2Ratio.d)])

\* Soft positional correction of the pair along sep.
positionalCorrection(c1, c2, sep) ==
  LET rt == correctionRatios(c1, c2)
      cf == correctionFactor(c1, c2)
  IN  Pair(IF c1.isStatic THEN c1
           ELSE [c1 EXCEPT !.x = @ + RDiv(sep.x * rt.m1Ratio.n * cf, rt.m1Ratio.d),
                           !.y = @ + RDiv(sep.y * rt.m1Ratio.n * cf, rt.m1Ratio.d)],
           IF c2.isStatic THEN c2
           ELSE [c2 EXCEPT !.x = @ - RDiv(sep.x * rt.m2Ratio.n * cf, rt.m2Ratio.d),
                           !.y = @ - RDiv(sep.y * rt.m2Ratio.n * cf, rt.m2Ratio.d)])

\* commonV that leaves out the division by the total mass.
commonMomentum(v1, v2, m1, m2) ==
  IF m1 > HEAVY_RATIO * m2 THEN v1
  ELSE IF m2 > HEAVY_RATIO * m1 THEN v2
  ELSE RDiv(v1 * m1 + v2 * m2, SC)

\* The common velocity component of a weld for components v1, v2.
commonV(v1, v2, m1, m2) ==
  IF m1 > HEAVY_RATIO * m2 THEN v1
  ELSE IF m2 > HEAVY_RATIO * m1 THEN v2
  ELSE RDiv(v1 * m1 + v2 * m2, m1 + m2)

\* Velocity weld: both free bodies take the common velocity and stop turning.
velocityWeld(c1, c2) ==
  LET m1 == IF c1.isStatic THEN Fx(WELD_STATIC_MASS) ELSE c1.mass
      m2 == IF c2.isStatic THEN Fx(WELD_STATIC_MASS) ELSE c2.mass
      commonVx == commonV(c1.vx, c2.vx, m1, m2)
      commonVy == commonV(c1.vy, c2.vy, m1, m2)
  IN  Pair(IF c1.isStatic THEN c1
           ELSE [c1 EXCEPT !.vx = commonVx, !.vy = commonVy, !.angV = 0],
           IF c2.isStatic THEN c2
           ELSE [c2 EXCEPT !.vx = commonVx, !.vy = commonVy, !.angV = 0])

\* Restitution, in hundredths.
RESTITUTION == 20
\* Friction coefficient mu, in hundredths.
FRICTION_MU == 30

\* restitution that is none at every speed.
restitutionNone(velAlongNormal) == 0

\* Restitution for a closing speed: none above -1.0.
restitution(velAlongNormal) == IF velAlongNormal > 0 - Fx(1) THEN 0 ELSE RESTITUTION

\* invMass of c against other, after the infinite-mass override: 0 for a
\* body more than ten times heavier than the other, and for a pinned body.
invMass(c, other) ==
  IF c.mass > HEAVY_RATIO * other.mass THEN 0
  ELSE IF c.isStatic THEN 0 ELSE RDiv(SC * SC, c.mass)

\* Impulse scalar j = -(1 + e) * velAlongNormal / invSum.  An impulse is
\* the quotient by a small inverse mass and is multiplied by one again: j,
\* jt and the impulse vectors carry two more digits (scale SC*SC).
impulseScalar(velAlongNormal, invSum) ==
  RDiv((0 - (SC + restitution(velAlongNormal))) * velAlongNormal * SC, invSum)

\* Tangent impulse jt, clamped by Coulomb's law.
tangentImpulse(rv, tangent, j, invSum) ==
  LET jt == RDiv((0 - Vec2Dot(rv, tangent)) * SC * SC, invSum)
  IN  IF Abs(jt) < RDiv(j * FRICTION_MU, SC) THEN jt ELSE 0 - RDiv(j * FRICTION_MU, SC)

\* The normal impulse and then the friction impulse applied to the pair.
applyImpulses(c1, c2, im1, im2, impulse, frictionImpulse) ==
  Pair(IF c1.isStatic THEN c1
       ELSE [c1 EXCEPT
               !.vx = @ + RDiv(impulse.x * im1, SC * SC)
                        + RDiv(frictionImpulse.x * im1, SC * SC),
               !.vy = @ + RDiv(impulse.y * im1, SC * SC)
                        + RDiv(frictionImpulse.y * im1, SC * SC)],
       IF c2.isStatic THEN c2
       ELSE [c2 EXCEPT
               !.vx = @ - RDiv(impulse.x * im2, SC * SC)
                        - RDiv(frictionImpulse.x * im2, SC * SC),
               !.vy = @ - RDiv(impulse.y * im2, SC * SC)
                        - RDiv(frictionImpulse.y * im2, SC * SC)])

\* Normal and friction impulse on a pair that is not welded.
impulseResolution(c1, c2, normal) ==
  LET rv == Vec2Sub(Vel(c1), Vel(c2))
      velAlongNormal == Vec2Dot(rv, normal)
      im1 == invMass(c1, c2)
      im2 == invMass(c2, c1)
      j == impulseScalar(velAlongNormal, im1 + im2)
      tangent == Vec2Norm(Vec2Sub(rv, Vec2Scale(normal, velAlongNormal)))
  IN  IF velAlongNormal > 0 THEN Pair(c1, c2)
      ELSE IF im1 + im2 = 0 THEN Pair(c1, c2)
      ELSE applyImpulses(c1, c2, im1, im2, Vec2Scale(normal, j),
                         Vec2Scale(tangent,
                                   RDiv(tangentImpulse(rv, tangent, j, im1 + im2), 2)))

\* resolveVelocity without the weld: every pair gets the impulses.
resolveVelocityNoWeld(moved, normal) ==
  impulseResolution(moved.c1, moved.c2, normal)

\* The velocity part of resolveCollision on the pair moved apart.
resolveVelocity(moved, normal) ==
  IF relSpeed(moved.c1, moved.c2) < Fx(WELD_SPEED)
  THEN velocityWeld(moved.c1, moved.c2)
  ELSE impulseResolution(moved.c1, moved.c2, normal)

\* resolveCollision(c1, c2): the pair after the call.
resolveCollision(c1, c2) ==
  IF c1.isStatic /\ c2.isStatic THEN Pair(c1, c2)
  ELSE LET result == satTest(getCorners(c1), getCorners(c2))
       IN  IF ~result.hit THEN Pair(c1, c2)
           ELSE resolveVelocity(
                  positionalCorrection(c1, c2, separation(c1, c2, result)),
                  Vec2Norm(separation(c1, c2, result)))

----------------------------------------------------------------------------
\* Physics constants.

MAGNETIC_CONSTANT == 15000
\* DRAG = 0.90 and ANGULAR_DRAG = 0.80, in hundredths.
DRAG == 90
ANGULAR_DRAG == 80
\* The damping at low speed (0.80), in hundredths.
LOW_SPEED_DRAG == 80
MAX_SPEED == 15
\* const MAX_FORCE = 2000
MAX_FORCE == 2000
\* Math.max(dist, 15): the least pole distance.
MIN_POLE_DIST == 15
\* dist < 40: the upper end of the ramp.
RAMP_DIST == 40
\* dist > 300: the range of the magnet-magnet force.
FORCE_RANGE == 300
\* distSq < 100 || distSq > 60000: the range of the attraction of iron.
IRON_MIN_DIST_SQ == 100
IRON_MAX_DIST_SQ == 60000
\* const margin = 20
MARGIN == 20
\* const iterations = 2
ITERATIONS == 2

\* canvas.width and canvas.height, in whole units.
CanvasWidth == 300
CanvasHeight == 200

----------------------------------------------------------------------------
\* Magnetic forces (updatePhysics, step 3).  The force of a pole pair
\* depends on positions, rotations, masses and isStatic alone, none of which
\* the force step changes; so the step is the list of its applyForce calls,
\* in program order, applied one after the other.

Charge(pole) == IF pole.type = "N" THEN 1 ELSE 0 - 1

\* dist = Math.max(|p1 - p2|, 15)
poleDist(p1, p2) ==
  Max(Hypot(p1.pos.x - p2.pos.x, p1.pos.y - p2.pos.y), Fx(MIN_POLE_DIST))

\* (q1 * q2 * strength) / clampedDistSq
coulomb(q1q2, dist) ==
  RDiv(q1q2 * MAGNETIC_CONSTANT * SC * SC, RDiv(dist * dist, SC))

\* rampForce without the drop-off.
rampForceNone(forceMag, dist) == forceMag

\* The drop-off of the force from 40 down to 15.
rampForce(forceMag, dist) ==
  IF dist < Fx(RAMP_DIST)
  THEN RDiv(forceMag * Max(dist - Fx(MIN_POLE_DIST), 0), Fx(RAMP_DIST - MIN_POLE_DIST))
  ELSE forceMag

\* The clamp to [-MAX_FORCE, MAX_FORCE].
clampForce(forceMag) ==
  IF forceMag > Fx(MAX_FORCE) THEN Fx(MAX_FORCE)
  ELSE IF forceMag < 0 - Fx(MAX_FORCE) THEN 0 - Fx(MAX_FORCE)
  ELSE forceMag

\* forceMag for charges product q1q2 at clamped distance dist.
forceMagAt(q1q2, dist) == clampForce(rampForce(coulomb(q1q2, dist), dist))

\* poleForceMag without the least distance of 15, the ramp and the clamp.
poleForceMagUnbounded(p1, p2) ==
  coulomb(Charge(p1) * Charge(p2),
          Max(Hypot(p1.pos.x - p2.pos.x, p1.pos.y - p2.pos.y), Fx(1)))

\* forceMag of magnet pole p1 on magnet pole p2 (after ramp and clamp).
poleForceMag(p1, p2) == forceMagAt(Charge(p1) * Charge(p2), poleDist(p1, p2))

\* The force on the target pole p2 from the source pole p1.
poleForce(p1, p2) ==
  Vec2Scale(Vec2Norm(Vec2Sub(p2.pos, p1.pos)), poleForceMag(p1, p2))

\* reactionApplies that suppresses the reaction unless the object is heavier.
reactionIfHeavier(magnet, obj) == ~magnet.isStatic /\ obj.mass > magnet.mass

\* reactionApplies that always suppresses the reaction.
reactionNever(magnet, obj) == FALSE

\* reactionScale > 0: whether the source magnet receives the reaction.
reactionApplies(magnet, obj) ==
  /\ ~magnet.isStatic
  /\ ~(HEAVY_RATIO * obj.mass < magnet.mass)

\* The applyForce calls of one pole pair, as records [target, force, point]:
\* on obj at p2, then the reaction Vec2.scale(force, -1) on magnet at p1.
polePairCalls(mi, magnet, oi, obj, p1, p2) ==
  IF poleDist(p1, p2) > Fx(FORCE_RANGE) THEN << >>
  ELSE LET force == poleForce(p1, p2)
       IN  << [target |-> oi, force |-> force, point |-> p2.pos] >>
           \o (IF reactionApplies(magnet, obj)
               THEN << [target |-> mi, force |-> Vec(0 - force.x, 0 - force.y),
                        point |-> p1.pos] >>
               ELSE << >>)

\* Every pole pair, p1 outermost, from pair number n (1..4) on.
RECURSIVE polePairsFrom(_, _, _, _, _, _, _)
polePairsFrom(mi, magnet, oi, obj, mPoles, objPoles, n) ==
  IF n > Len(mPoles) * Len(objPoles) THEN << >>
  ELSE polePairCalls(mi, magnet, oi, obj,
                     mPoles[((n - 1) \div Len(objPoles)) + 1],
                     objPoles[((n - 1) % Len(objPoles)) + 1])
       \o polePairsFrom(mi, magnet, oi, obj, mPoles, objPoles, n + 1)

\* The calls of magnet mi on bar magnet oi.
magnetMagnetCalls(mi, magnet, oi, obj) ==
  polePairsFrom(mi, magnet, oi, obj, getPoles(magnet), getPoles(obj), 1)

\* ironForceMag without the factor -1.
ironForceMagRepel(distSq) ==
  RDiv((MAGNETIC_CONSTANT \div 2) * SC * SC, RDiv(distSq, SC))

\* forceMag = -1 * (MAGNETIC_CONSTANT * 0.5) / distSq, distSq of scale SC*SC.
ironForceMag(distSq) ==
  0 - RDiv((MAGNETIC_CONSTANT \div 2) * SC * SC, RDiv(distSq, SC))

\* The call on an end point pt of a nail or key from a pole: none out of range.
ironForceCalls(oi, pt, pole) ==
  LET r == Vec2Sub(pt, pole.pos)
      distSq == (pt.x - pole.pos.x) * (pt.x - pole.pos.x)
                + (pt.y - pole.pos.y) * (pt.y - pole.pos.y)
  IN  IF distSq < IRON_MIN_DIST_SQ * SC * SC \/ distSq > IRON_MAX_DIST_SQ * SC * SC
      THEN << >>
      ELSE << [target |-> oi, force |-> Vec2Scale(Vec2Norm(r), ironForceMag(distSq)),
               point |-> pt] >>

\* The two end points of a nail or key.
endPoints(obj) ==
  << Vec2Add(Pos(obj), Vec2Rotate(Vec(0 - (obj.width \div 2), 0), obj.rotation)),
     Vec2Add(Pos(obj), Vec2Rotate(Vec(obj.width \div 2, 0), obj.rotation)) >>

\* Each end point, each pole, from pair number n (1..4) on.
RECURSIVE ironPairsFrom(_, _, _, _)
ironPairsFrom(oi, ends, mPoles, n) ==
  IF n > Len(ends) * Len(mPoles) THEN << >>
  ELSE ironForceCalls(oi, ends[((n - 1) \div Len(mPoles)) + 1],
                      mPoles[((n - 1) % Len(mPoles)) + 1])
       \o ironPairsFrom(oi, ends, mPoles, n + 1)

\* The calls of a magnet on a nail or key.
magnetIronCalls(magnet, oi, obj) ==
  ironPairsFrom(oi, endPoints(obj), getPoles(magnet), 1)

\* isMagneticObject that takes every kind for a magnetic object.
isMagneticObjectAny(c) == c.type # ""

\* magneticObjects: the kinds the force loop visits.
isMagneticObject(c) == c.type \in {"bar_magnet", "iron_nail", "key", "compass"}

\* The calls of magnet mi on object oi (the body of the inner forEach).
pairCalls(os, mi, oi) ==
  IF mi = oi THEN << >>
  ELSE IF os[oi].type = "compass" THEN << >>
  ELSE IF os[oi].type = "bar_magnet" THEN magnetMagnetCalls(mi, os[mi], oi, os[oi])
  ELSE magnetIronCalls(os[mi], oi, os[oi])

RECURSIVE InnerCalls(_, _, _)
InnerCalls(os, mi, objsLeft) ==
  IF objsLeft = << >> THEN << >>
  ELSE pairCalls(os, mi, Head(objsLeft)) \o InnerCalls(os, mi, Tail(objsLeft))

RECURSIVE OuterCalls(_, _, _)
OuterCalls(os, magnetsLeft, magneticObjects) ==
  IF magnetsLeft = << >> THEN << >>
  ELSE InnerCalls(os, Head(magnetsLeft), magneticObjects)
       \o OuterCalls(os, Tail(magnetsLeft), magneticObjects)

\* The filters of step 2, as sequences of ids in collection order.
magnetsOf(os, comps) == SelectSeq(comps, LAMBDA i : os[i].type = "bar_magnet")
magneticObjectsOf(os, comps) == SelectSeq(comps, LAMBDA i : isMagneticObject(os[i]))
compassesOf(os, comps) == SelectSeq(comps, LAMBDA i : os[i].type = "compass")

\* Every applyForce call of the force step of one tick, in order.
forceCalls(os, comps) ==
  OuterCalls(os, magnetsOf(os, comps), magneticObjectsOf(os, comps))

RECURSIVE ApplyCalls(_, _)
ApplyCalls(os, calls) ==
  IF calls = << >> THEN os
  ELSE ApplyCalls([os EXCEPT ![Head(calls).target] =
                     applyForce(@, Head(calls).force, Head(calls).point)],
                  Tail(calls))

\* The force step: the heap after every call.
magneticForces(os, comps) == ApplyCalls(os, forceCalls(os, comps))

----------------------------------------------------------------------------
\* updatePhysics.  os is the heap (id -> body), comps the collection (ids in
\* order), dragged the id draggedComponent refers to (NULL for null).

NULL == 1 - 1

\* resetDragged that pins the dragged body and leaves its velocity.
resetDraggedFlagOnly(os, dragged) ==
  IF dragged = NULL THEN os ELSE [os EXCEPT ![dragged].isStatic = TRUE]

\* Step 1: the dragged body is pinned and stopped.
resetDragged(os, dragged) ==
  IF dragged = NULL THEN os
  ELSE [os EXCEPT ![dragged] =
          [@ EXCEPT !.isStatic = TRUE, !.vx = 0, !.vy = 0, !.angV = 0]]

\* Least distance at which a pole contributes to the field at a compass.
NEEDLE_MIN_DIST == 10

\* The field of one pole at the place of a compass.
poleField(comp, pole) ==
  LET r == Vec2Sub(Pos(comp), pole.pos)
      dSq == (comp.x - pole.pos.x) * (comp.x - pole.pos.x)
             + (comp.y - pole.pos.y) * (comp.y - pole.pos.y)
      d == ISqrt(dSq)
  IN  IF d < Fx(NEEDLE_MIN_DIST) THEN Vec(0, 0)
      ELSE Vec2Scale(Vec(RDiv(r.x * SC, d), RDiv(r.y * SC, d)),
                     RDiv(Charge(pole) * MAGNETIC_CONSTANT * SC * SC, RDiv(dSq, SC)))

RECURSIVE polesField(_, _, _)
polesField(comp, polesLeft, B) ==
  IF polesLeft = << >> THEN B
  ELSE polesField(comp, Tail(polesLeft), Vec2Add(B, poleField(comp, Head(polesLeft))))

\* B at compass ci: the sum over the poles of every magnet but the compass.
RECURSIVE fieldAt(_, _, _, _)
fieldAt(os, ci, magnetsLeft, B) ==
  IF magnetsLeft = << >> THEN B
  ELSE fieldAt(os, ci, Tail(magnetsLeft),
               IF Head(magnetsLeft) = ci THEN B
               ELSE polesField(os[ci], getPoles(os[Head(magnetsLeft)]), B))

\* The needle of compass ci set along B, if B is significant.
alignNeedle(os, ci, B) ==
  IF Hypot(B.x, B.y) > 10
  THEN [os EXCEPT ![ci].needleAngle = Atan2(B.y, B.x)]
  ELSE os

\* Step 3a: every compass needle turns along the field, if there is one.
RECURSIVE updateNeedles(_, _, _)
updateNeedles(os, compassesLeft, magnets) ==
  IF compassesLeft = << >> THEN os
  ELSE updateNeedles(alignNeedle(os, Head(compassesLeft),
                                 fieldAt(os, Head(compassesLeft), magnets, Vec(0, 0))),
                     Tail(compassesLeft), magnets)

updateCompassNeedles(os, comps) ==
  updateNeedles(os, compassesOf(os, comps), magnetsOf(os, comps))

\* Step 4, damping: stronger below speed 2.0.
damp(c) ==
  IF Hypot(c.vx, c.vy) < Fx(2)
  THEN [c EXCEPT !.vx = RDiv(@ * LOW_SPEED_DRAG, SC),
                 !.vy = RDiv(@ * LOW_SPEED_DRAG, SC),
                 !.angV = RDiv(@ * LOW_SPEED_DRAG, SC)]
  ELSE [c EXCEPT !.vx = RDiv(@ * DRAG, SC),
                 !.vy = RDiv(@ * DRAG, SC),
                 !.angV = RDiv(@ * ANGULAR_DRAG, SC)]

\* sleep with the thresholds of speed and angV exchanged.
sleepExchanged(c) ==
  IF Hypot(c.vx, c.vy) < 5 /\ Abs(c.angV) < 20
  THEN [c EXCEPT !.vx = 0, !.vy = 0, !.angV = 0]
  ELSE c

\* Step 4, sleep threshold: speed < 0.2 and |angV| < 0.05.
sleep(c) ==
  IF Hypot(c.vx, c.vy) < 20 /\ Abs(c.angV) < 5
  THEN [c EXCEPT !.vx = 0, !.vy = 0, !.angV = 0]
  ELSE c

\* capSpeed without the cap.
capSpeedNone(c) == c

\* Step 4, speed cap.
capSpeed(c) ==
  LET speed == Hypot(c.vx, c.vy)
  IN  IF speed > Fx(MAX_SPEED)
      THEN [c EXCEPT !.vx = RDiv(@ * Fx(MAX_SPEED), speed),
                     !.vy = RDiv(@ * Fx(MAX_SPEED), speed)]
      ELSE c

\* advance that steps against the velocity.
advanceBackwards(c) ==
  [c EXCEPT !.x = @ - c.vx, !.y = @ - c.vy, !.rotation = @ - c.angV]

\* Step 4, explicit Euler step.
advance(c) ==
  [c EXCEPT !.x = @ + c.vx, !.y = @ + c.vy, !.rotation = @ + c.angV]

\* bounceX that reverses the velocity component without halving it.
bounceXElastic(c, lo, at) ==
  IF (lo /\ c.x < at) \/ (~lo /\ c.x > at)
  THEN [c EXCEPT !.x = at, !.vx = 0 - @] ELSE c

\* Step 4, bounds check: one wall.  lo says whether the wall is the lower
\* bound of the coordinate; at is the place of the wall.
bounceX(c, lo, at) ==
  IF (lo /\ c.x < at) \/ (~lo /\ c.x > at)
  THEN [c EXCEPT !.x = at, !.vx = RDiv(@ * (0 - 50), SC)] ELSE c

bounceY(c, lo, at) ==
  IF (lo /\ c.y < at) \/ (~lo /\ c.y > at)
  THEN [c EXCEPT !.y = at, !.vy = RDiv(@ * (0 - 50), SC)] ELSE c

\* The four walls in the order of the source.
bounce(c) ==
  bounceY(bounceY(bounceX(bounceX(c, TRUE, Fx(MARGIN)),
                          FALSE, Fx(CanvasWidth - MARGIN)),
                  TRUE, Fx(MARGIN)),
          FALSE, Fx(CanvasHeight - MARGIN))

\* The integrator on one body (the body of components.forEach in step 4).
integrate(c) ==
  IF c.isStatic THEN c ELSE bounce(advance(capSpeed(sleep(damp(c)))))

RECURSIVE updateMotion(_, _)
updateMotion(os, compsLeft) ==
  IF compsLeft = << >> THEN os
  ELSE updateMotion([os EXCEPT ![Head(compsLeft)] = integrate(@)], Tail(compsLeft))

\* The heap with the pair (a, b) replaced by the resolved pair r.
storePair(os, a, b, r) == [os EXCEPT ![a] = r.c1, ![b] = r.c2]

\* One pass of the solver from the pair (i, j) on: every i < j in order.
RECURSIVE solverPass(_, _, _, _)
solverPass(os, comps, i, j) ==
  IF i > Len(comps) THEN os
  ELSE IF j > Len(comps) THEN solverPass(os, comps, i + 1, i + 2)
  ELSE solverPass(storePair(os, comps[i], comps[j],
                            resolveCollision(os[comps[i]], os[comps[j]])),
                  comps, i, j + 1)

\* Step 5: the solver, k passes.
RECURSIVE checkCollisions(_, _, _)
checkCollisions(os, comps, k) ==
  IF k = 0 THEN os
  ELSE checkCollisions(solverPass(os, comps, 1, 2), comps, k - 1)

\* updatePhysics(): the heap after one tick.
updatePhysics(os, comps, dragged) ==
  checkCollisions(
    updateMotion(
      magneticForces(
        updateCompassNeedles(resetDragged(os, dragged), comps),
        comps),
      comps),
    comps, ITERATIONS)

----------------------------------------------------------------------------
\* Bounds of the model.

\* Most bodies ever created.
MaxBodies == 2
\* Most ticks of the animation loop.
MaxTicks == 2
\* Most pointer, menu and toolbox events.
MaxEvents == 4

\* The places of pointer events and drops: A, B within 10 units of A (a move
\* that keeps the long press), and C, left of the margin.
Points == { Vec(Fx(60), Fx(60)), Vec(Fx(66), Fx(60)), Vec(Fx(10), Fx(100)) }
DropPoints == { Vec(Fx(60), Fx(60)), Vec(Fx(10), Fx(100)) }
\* The kinds dropped: three of the toolbox, and a type string that setSize
\* does not know (the handler takes any non-empty string of the drag data).
DropKinds == {"bar_magnet", "iron_nail", "coin", "battery"}

----------------------------------------------------------------------------
\* State.

VARIABLES
  objs,               \* every Component created so far, by id (its index)
  components,         \* the collection: ids in drawing order
  isDragging,
  draggedComponent,   \* an id, or NULL
  dragOffset,
  dragStartPosition,  \* a point, or NoPosition while never assigned
  tapWindow,          \* Date.now() - dragStartTime < 300 can still hold
  longPressTimer,     \* whether the variable holds a timer id (stale or not)
  pendingLongPress,   \* the body of the scheduled long-press callback, or NULL
  orphanTimers,       \* callbacks of pending timers that longPressTimer lost
  contextMenuTarget,  \* an id, or NULL (the menu is hidden)
  op,                 \* the operation that led to this state, with its subject
  nTicks,
  nEvents,
  fieldTrace          \* the locals of a running drawFieldLines, or NoTrace

vars == << objs, components, isDragging, draggedComponent, dragOffset,
           dragStartPosition, tapWindow, longPressTimer, pendingLongPress,
           orphanTimers, contextMenuTarget, op, nTicks, nEvents, fieldTrace >>

NoPosition == [x |-> 0 - 1, y |-> 0 - 1]

\* No call of drawFieldLines is running.
NoTrace == [pc |-> "idle"]

pointerVars == << isDragging, draggedComponent, dragOffset, dragStartPosition,
                  tapWindow, longPressTimer, pendingLongPress, orphanTimers >>

\* Init: the page after its script has run.
Init ==
  /\ objs = << >>
  /\ components = << >>
  /\ isDragging = FALSE
  /\ draggedComponent = NULL
  /\ dragOffset = Vec(0, 0)
  /\ dragStartPosition = NoPosition
  /\ tapWindow = FALSE
  /\ longPressTimer = FALSE
  /\ pendingLongPress = NULL
  /\ orphanTimers = << >>
  /\ contextMenuTarget = NULL
  /\ op = [name |-> "init", subject |-> NULL]
  /\ nTicks = 0
  /\ nEvents = 0
  /\ fieldTrace = NoTrace

----------------------------------------------------------------------------
\* Hit testing.

\* One edge (j -> i) of the ray casting of isPointInPoly.
edgeCrosses(pt, pi, pj) ==
  /\ (pi.y > pt.y) # (pj.y > pt.y)
  /\ pt.x < SDiv((pj.x - pi.x) * (pt.y - pi.y), pj.y - pi.y) + pi.x

\* isPointInPoly(pt, poly): an odd number of edges crossed.
isPointInPoly(pt, poly) ==
  LET n == Len(poly)
      crossed == { i \in 1..n : edgeCrosses(pt, poly[i], poly[IF i = 1 THEN n ELSE i - 1]) }
  IN  Cardinality(crossed) % 2 = 1

\* components.slice().reverse().find(hit): the topmost body at pos, or NULL.
RECURSIVE findLast(_, _, _, _)
findLast(os, comps, pos, i) ==
  IF i = 0 THEN NULL
  ELSE IF isPointInPoly(pos, getCorners(os[comps[i]])) THEN comps[i]
  ELSE findLast(os, comps, pos, i - 1)

topmostAt(os, comps, pos) == findLast(os, comps, pos, Len(comps))

\* moveToTop that pushes clicked without removing it first.
moveToTopPushOnly(comps, clicked) == Append(comps, clicked)

\* components.filter(c => c !== clicked), then push(clicked).
moveToTop(comps, clicked) ==
  Append(SelectSeq(comps, LAMBDA i : i # clicked), clicked)

----------------------------------------------------------------------------
\* Operations.

\* The drop handler of the workspace (and the touch polyfill's touchend).
Drop(type, pos) ==
  /\ nEvents < MaxEvents
  /\ Len(objs) < MaxBodies
  /\ objs' = Append(objs, NewComponent(type, pos.x, pos.y))
  /\ components' = Append(components, Len(objs) + 1)
  /\ op' = [name |-> "drop", subject |-> Len(objs) + 1]
  /\ nEvents' = nEvents + 1
  /\ UNCHANGED << pointerVars, contextMenuTarget, nTicks, fieldTrace >>

\* clearTimeout that cancels nothing.
clearTimeoutNoop(timer, pending) == pending

\* clearTimeout(longPressTimer), run if the variable holds a timer id: the
\* callback still pending afterwards.  The id of a timer that has fired
\* cancels nothing.
clearTimeout(timer, pending) == IF timer THEN NULL ELSE pending

\* The pending timers that no variable refers to, once longPressTimer is
\* assigned anew while the callback pending is still scheduled.
orphaned(pending, orphans) ==
  IF pending # NULL THEN Append(orphans, pending) ELSE orphans

\* The sequence q without its k-th element.
dropAt(q, k) == SubSeq(q, 1, k - 1) \o SubSeq(q, k + 1, Len(q))

\* handleStart with the secondary button: only dragOffset is reset.
HandleStartRight ==
  /\ nEvents < MaxEvents
  /\ dragOffset' = Vec(0, 0)
  /\ op' = [name |-> "startRight", subject |-> NULL]
  /\ nEvents' = nEvents + 1
  /\ UNCHANGED << objs, components, isDragging, draggedComponent, dragStartPosition,
                  tapWindow, longPressTimer, pendingLongPress, orphanTimers,
                  contextMenuTarget, nTicks, fieldTrace >>

\* handleStart(e) with the primary button or a touch at pos.
HandleStart(pos) ==
  LET clicked == topmostAt(objs, components, pos)
  IN  /\ nEvents < MaxEvents
      /\ IF clicked # NULL
         THEN /\ tapWindow' = TRUE
              /\ dragStartPosition' = pos
              /\ isDragging' = TRUE
              /\ draggedComponent' = clicked
              /\ dragOffset' = Vec(pos.x - objs[clicked].x, pos.y - objs[clicked].y)
              /\ components' = moveToTop(components, clicked)
              /\ orphanTimers' = orphaned(clearTimeout(longPressTimer, pendingLongPress),
                                          orphanTimers)
              /\ longPressTimer' = TRUE
              /\ pendingLongPress' = clicked
              /\ UNCHANGED contextMenuTarget
         ELSE /\ dragOffset' = Vec(0, 0)
              /\ contextMenuTarget' = NULL
              /\ UNCHANGED << components, isDragging, draggedComponent,
                              dragStartPosition, tapWindow, longPressTimer,
                              pendingLongPress, orphanTimers >>
      /\ op' = [name |-> "start", subject |-> clicked]
      /\ nEvents' = nEvents + 1
      /\ UNCHANGED << objs, nTicks, fieldTrace >>

\* The callback of a pending long-press timer: timer 0 is the one that
\* longPressTimer refers to, timer k > 0 the k-th of orphanTimers.
LongPress ==
  /\ nEvents < MaxEvents
  /\ \E k \in 0..Len(orphanTimers) :
       /\ k = 0 => pendingLongPress # NULL
       /\ isDragging' = FALSE
       /\ draggedComponent' = NULL
       /\ contextMenuTarget' = (IF k = 0 THEN pendingLongPress ELSE orphanTimers[k])
       /\ pendingLongPress' = (IF k = 0 THEN NULL ELSE pendingLongPress)
       /\ orphanTimers' = (IF k = 0 THEN orphanTimers ELSE dropAt(orphanTimers, k))
       /\ op' = [name |-> "longPress", subject |-> contextMenuTarget']
  /\ tapWindow' = FALSE
  /\ nEvents' = nEvents + 1
  /\ UNCHANGED << objs, components, dragOffset, dragStartPosition, longPressTimer, nTicks, fieldTrace >>

\* handleMove(e) at pos.
HandleMove(pos) ==
  LET cancel == /\ longPressTimer
                /\ isDragging
                /\ Hypot(pos.x - dragStartPosition.x, pos.y - dragStartPosition.y) > Fx(10)
  IN  /\ nEvents < MaxEvents
      /\ longPressTimer' = IF cancel THEN FALSE ELSE longPressTimer
      /\ pendingLongPress' = IF cancel THEN NULL ELSE pendingLongPress
      /\ orphanTimers' = IF cancel
                         THEN orphaned(clearTimeout(longPressTimer, pendingLongPress),
                                       orphanTimers)
                         ELSE orphanTimers
      /\ objs' = IF isDragging /\ draggedComponent # NULL
                 THEN [objs EXCEPT ![draggedComponent] =
                         [@ EXCEPT !.x = pos.x - dragOffset.x,
                                   !.y = pos.y - dragOffset.y,
                                   !.vx = 0, !.vy = 0]]
                 ELSE objs
      /\ op' = [name |-> "move", subject |-> draggedComponent]
      /\ nEvents' = nEvents + 1
      /\ UNCHANGED << components, isDragging, draggedComponent, dragOffset,
                      dragStartPosition, tapWindow, contextMenuTarget, nTicks, fieldTrace >>

\* handleEnd(e) at pos; quick says that less than 300 ms passed since the press.
HandleEnd(pos, quick) ==
  LET released == IF draggedComponent # NULL
                  THEN [objs EXCEPT ![draggedComponent].isStatic = FALSE]
                  ELSE objs
      \* dragStartPosition is an undeclared global: reading it before the
      \* first press throws, and the handler ends there.
      isTap == /\ dragStartPosition # NoPosition
               /\ quick
               /\ Hypot(pos.x - dragStartPosition.x, pos.y - dragStartPosition.y) < Fx(10)
      clicked == IF isTap THEN topmostAt(released, components, dragStartPosition) ELSE NULL
  IN  /\ nEvents < MaxEvents
      /\ quick => tapWindow
      /\ longPressTimer' = FALSE
      /\ pendingLongPress' = NULL
      /\ orphanTimers' = orphaned(clearTimeout(longPressTimer, pendingLongPress),
                                  orphanTimers)
      /\ isDragging' = FALSE
      /\ draggedComponent' = NULL
      /\ tapWindow' = (tapWindow /\ quick)
      /\ objs' = IF clicked # NULL
                 THEN [released EXCEPT ![clicked].rotation = @ + QUARTER_PI]
                 ELSE released
      /\ op' = [name |-> "end", subject |-> draggedComponent]
      /\ nEvents' = nEvents + 1
      /\ UNCHANGED << components, dragOffset, dragStartPosition, contextMenuTarget, nTicks, fieldTrace >>

\* The contextmenu handler of the canvas at pos.
ContextMenu(pos) ==
  /\ nEvents < MaxEvents
  /\ contextMenuTarget' = topmostAt(objs, components, pos)
  /\ op' = [name |-> "contextmenu", subject |-> contextMenuTarget']
  /\ nEvents' = nEvents + 1
  /\ UNCHANGED << objs, components, pointerVars, nTicks, fieldTrace >>

\* The click handler of the menu's delete entry.
MenuDelete ==
  /\ nEvents < MaxEvents
  /\ contextMenuTarget # NULL
  /\ components' = SelectSeq(components, LAMBDA i : i # contextMenuTarget)
  /\ contextMenuTarget' = NULL
  /\ op' = [name |-> "delete", subject |-> contextMenuTarget]
  /\ nEvents' = nEvents + 1
  /\ UNCHANGED << objs, pointerVars, nTicks, fieldTrace >>

\* The click handler of window for a click outside the menu.
WindowClick ==
  /\ nEvents < MaxEvents
  /\ contextMenuTarget # NULL
  /\ contextMenuTarget' = NULL
  /\ op' = [name |-> "windowClick", subject |-> NULL]
  /\ nEvents' = nEvents + 1
  /\ UNCHANGED << objs, components, pointerVars, nTicks, fieldTrace >>

\* ClearConfirmed that keeps the body being dragged in the collection.
ClearKeepsDragged ==
  /\ nEvents < MaxEvents
  /\ components # << >>
  /\ components' = (IF draggedComponent # NULL THEN << draggedComponent >> ELSE << >>)
  /\ op' = [name |-> "clear", subject |-> NULL]
  /\ nEvents' = nEvents + 1
  /\ UNCHANGED << objs, pointerVars, contextMenuTarget, nTicks, fieldTrace >>

\* The clear button, confirmed in the modal.
ClearConfirmed ==
  /\ nEvents < MaxEvents
  /\ components # << >>
  /\ components' = << >>
  /\ op' = [name |-> "clear", subject |-> NULL]
  /\ nEvents' = nEvents + 1
  /\ UNCHANGED << objs, pointerVars, contextMenuTarget, nTicks, fieldTrace >>

\* One frame of loop(): updatePhysics.
Tick ==
  /\ nTicks < MaxTicks
  /\ objs' = updatePhysics(objs, components, draggedComponent)
  /\ op' = [name |-> "tick", subject |-> draggedComponent]
  /\ nTicks' = nTicks + 1
  /\ UNCHANGED << components, pointerVars, contextMenuTarget, nEvents, fieldTrace >>

Next ==
  \/ \E type \in DropKinds, pos \in DropPoints : Drop(type, pos)
  \/ HandleStartRight
  \/ \E pos \in Points : HandleStart(pos)
  \/ LongPress
  \/ \E pos \in Points : HandleMove(pos)
  \/ \E pos \in Points, quick \in BOOLEAN : HandleEnd(pos, quick)
  \/ \E pos \in Points : ContextMenu(pos)
  \/ MenuDelete
  \/ WindowClick
  \/ ClearConfirmed
  \/ Tick

Spec == Init /\ [][Next]_vars

----------------------------------------------------------------------------
\* The physics step on its own.  SpecLab starts from a world of two bodies
\* drawn from bounded sets of kinds, places, rotations, velocities and pins,
\* and applies the parts of updatePhysics as the frame applies them: the
\* force step, the integrator, the resolver on the pair, and the whole tick.

\* Most steps applied to a world.
LabSteps == 2

\* The kinds of the first and the second body.
LabKinds ==
  { << "bar_magnet", "bar_magnet" >>, << "bar_magnet", "iron_nail" >>,
    << "bar_magnet", "key" >>, << "iron_nail", "coin" >>,
    << "coin", "coin" >>, << "coin", "bar_magnet" >>,
    << "bar_magnet", "compass" >>, << "eraser", "bar_magnet" >> }

\* The place of the first body: inside the walls, and left of the margin
\* (a body is dropped and dragged wherever the pointer is).
LabPlaces == { Vec(Fx(100), Fx(100)), Vec(Fx(10), Fx(100)) }

\* The second body's offset from the first: coincident, two units apart,
\* overlapping along x (by more and by less than along y), overlapping
\* along y, and apart; twelve units (from the place left of the margin, just
\* inside the left wall), 100 units, and 250 units (some poles of two
\* magnets are then more than 300 apart).
LabOffsets ==
  { Vec(0, 0), Vec(Fx(2), 0), Vec(Fx(30), 0), Vec(Fx(70), 0), Vec(0, Fx(25)),
    Vec(Fx(130), 0), Vec(Fx(12), 0), Vec(Fx(100), 0), Vec(Fx(250), 0) }

\* The second body's rotation: none, and one tap (45 degrees).
LabRotations == { 0, QUARTER_PI }

\* Velocities << vx1, vx2, angV1 >> along x: at rest, head-on at 3.0 each,
\* body 1 at speed 0.1 turning at 0.01 (body 2 at 2.0), a slow approach
\* (relative 1.5), and body 2 running into body 1 at 5.0, at 2.0 and at
\* 15.0, the most the speed cap leaves.
LabVelocities ==
  { << 0, 0, 0 >>, << 300, 0 - 300, 0 >>, << 10, 0 - 200, 1 >>,
    << 100, 0 - 50, 10 >>, << 0, 0 - 500, 0 >>, << 0, 0 - 200, 0 >>,
    << 0, 0 - 1500, 0 >> }

\* isStatic of the two bodies.
LabPins == { << FALSE, FALSE >>, << TRUE, FALSE >>, << TRUE, TRUE >> }

LabBody(type, pos, rotation, vx, angV, pinned) ==
  [NewComponent(type, pos.x, pos.y) EXCEPT
     !.rotation = rotation, !.vx = vx, !.angV = angV, !.isStatic = pinned]

\* The worlds: a pinned body is at rest, as updatePhysics leaves it.
LabWorlds ==
  { << LabBody(k[1], p, 0, v[1], v[3], s[1]),
       LabBody(k[2], Vec2Add(p, d), r, v[2], 0, s[2]) >> :
      k \in LabKinds, p \in LabPlaces, d \in LabOffsets, r \in LabRotations,
      v \in LabVelocities,
      s \in LabPins }

LabInit ==
  /\ objs \in { w \in LabWorlds :
                  \A i \in 1..2 : w[i].isStatic => w[i].vx = 0 /\ w[i].angV = 0 }
  /\ components = << 1, 2 >>
  /\ draggedComponent \in { NULL, 1 }
  /\ isDragging = (draggedComponent # NULL)
  /\ dragOffset = Vec(0, 0)
  /\ dragStartPosition = (IF draggedComponent # NULL THEN Pos(objs[1]) ELSE NoPosition)
  /\ tapWindow = FALSE
  /\ longPressTimer = FALSE
  /\ pendingLongPress = NULL
  /\ orphanTimers = << >>
  /\ contextMenuTarget = NULL
  /\ op = [name |-> "init", subject |-> NULL]
  /\ nTicks = 0
  /\ nEvents = 0
  /\ fieldTrace = NoTrace

LabStep(name, os) ==
  /\ nTicks < LabSteps
  /\ objs' = os
  /\ op' = [name |-> name, subject |-> draggedComponent]
  /\ nTicks' = nTicks + 1
  /\ UNCHANGED << components, pointerVars, contextMenuTarget, nEvents, fieldTrace >>

\* Step 3 of updatePhysics: the magnetic forces.
LabForces == LabStep("forces", magneticForces(objs, components))

\* Step 4 of updatePhysics: the integrator.
LabIntegrate == LabStep("integrate", updateMotion(objs, components))

\* One call of resolveCollision on the pair.
LabResolve ==
  LabStep("resolve", storePair(objs, 1, 2, resolveCollision(objs[1], objs[2])))

\* The whole of updatePhysics.
LabTick == LabStep("tick", updatePhysics(objs, components, draggedComponent))

LabNext == LabForces \/ LabIntegrate \/ LabResolve \/ LabTick

SpecLab == LabInit /\ [][LabNext]_vars

----------------------------------------------------------------------------
\* Field lines (drawFieldLines).  The function draws on the canvas and
\* changes no body; SpecField runs it step by step on worlds drawn from a
\* bounded set: the call, each iteration of the tracing loop, and each
\* stroke of a finished line.  fieldTrace holds its locals: the index mi of
\* the magnet m in magnets, its startPoints, the index k of the start point
\* sp, curr, step, and whether the loop was left by break.

\* for (let i = -2; i <= 2; i++): the seeds on one pole face.
SEEDS_PER_FACE == 5
\* for (let step = 0; step < 100; step++)
TRACE_STEPS == 100
\* Step size.
TRACE_STEP_SIZE == 10
\* if (d < 10) return: the pole is too close.
TRACE_MIN_DIST == 10
\* mag * 20000
TRACE_STRENGTH == 20000
\* if (bMag < 0.1) break: the threshold in thousandths (B has scale 1000).
TRACE_MIN_FIELD == 100

\* 20000 / dSq in thousandths, for dSq in hundredths, rounded to nearest.
lineStrength(dSq) == (TRACE_STRENGTH * 100000 + dSq \div 2) \div dSq

\* The contribution to B of a pole of charge q at the offset (rx, ry) and
\* the distance d, all three in tenths: dir * (q / dSq) * 20000.
lineFieldAt(rx, ry, d, q) ==
  IF d < TRACE_MIN_DIST * 10 THEN Vec(0, 0)
  ELSE Vec(RDiv(q * lineStrength(rx * rx + ry * ry) * rx, d),
           RDiv(q * lineStrength(rx * rx + ry * ry) * ry, d))

\* The contribution of one pole to B at curr.
lineField(curr, pole) ==
  lineFieldAt(RDiv(curr.x - pole.pos.x, 10), RDiv(curr.y - pole.pos.y, 10),
              RDiv(Hypot(curr.x - pole.pos.x, curr.y - pole.pos.y), 10),
              Charge(pole))

\* B at curr: the sum over every pole of every magnet, from magnet n on.
RECURSIVE lineFieldSum(_, _, _, _, _)
lineFieldSum(os, magnets, n, curr, B) ==
  IF n > Len(magnets) THEN B
  ELSE lineFieldSum(os, magnets, n + 1, curr,
         Vec2Add(Vec2Add(B, lineField(curr, getPoles(os[magnets[n]])[1])),
                 lineField(curr, getPoles(os[magnets[n]])[2])))

\* The start points of magnet m: five on the face at local x = -w/2 traced
\* forward, then five on the face at local x = w/2 traced backward.
startPoints(m) ==
  [k \in 1..(2 * SEEDS_PER_FACE) |->
     [pos |-> Vec2Add(Pos(m),
                Vec2Rotate(Vec(IF k <= SEEDS_PER_FACE THEN 0 - (m.width \div 2)
                               ELSE m.width \div 2,
                               (((k - 1) % SEEDS_PER_FACE) - 2) * (m.height \div 5)),
                           m.rotation)),
      dirMult |-> IF k <= SEEDS_PER_FACE THEN 1 ELSE 0 - 1]]

\* The locals at the start of the trace of start point k of magnet mi.
traceStart(mi, sps, k) ==
  [pc |-> "trace", mi |-> mi, startPoints |-> sps, k |-> k,
   curr |-> sps[k].pos, step |-> 0, broke |-> FALSE]

\* A tracing loop without its bound.
loopForever(step) == TRUE

\* step < 100: the condition of the tracing loop.
loopContinues(step) == step < TRACE_STEPS

\* One iteration of the tracing loop with the field B at curr: break if B is
\* weak, else a step of size 10 along B (against it for an S seed).
traceStep(t, B, bMag) ==
  IF bMag < TRACE_MIN_FIELD THEN [t EXCEPT !.broke = TRUE]
  ELSE [t EXCEPT
          !.curr = Vec(@.x + RDiv(B.x * t.startPoints[t.k].dirMult * Fx(TRACE_STEP_SIZE), bMag),
                       @.y + RDiv(B.y * t.startPoints[t.k].dirMult * Fx(TRACE_STEP_SIZE), bMag)),
          !.step = @ + 1]

\* The locals after a line is stroked: the next start point, the next
\* magnet, or the return.
traceNext(os, magnets, t) ==
  IF t.k < Len(t.startPoints) THEN traceStart(t.mi, t.startPoints, t.k + 1)
  ELSE IF t.mi < Len(magnets)
       THEN traceStart(t.mi + 1, startPoints(os[magnets[t.mi + 1]]), 1)
       ELSE NoTrace

\* A step of drawFieldLines: it changes its locals alone.
FieldStepTo(name, t) ==
  /\ fieldTrace' = t
  /\ op' = [name |-> name, subject |-> NULL]
  /\ UNCHANGED << objs, components, pointerVars, contextMenuTarget, nTicks, nEvents >>

\* The call of drawFieldLines: it returns at once if there is no magnet.
FieldDraw ==
  /\ fieldTrace.pc = "idle"
  /\ FieldStepTo("draw",
       IF magnetsOf(objs, components) = << >> THEN NoTrace
       ELSE traceStart(1, startPoints(objs[magnetsOf(objs, components)[1]]), 1))

\* One iteration of the tracing loop.
FieldTraceStep ==
  /\ fieldTrace.pc = "trace"
  /\ ~fieldTrace.broke
  /\ loopContinues(fieldTrace.step)
  /\ LET B == lineFieldSum(objs, magnetsOf(objs, components), 1, fieldTrace.curr, Vec(0, 0))
     IN  FieldStepTo("step", traceStep(fieldTrace, B, Hypot(B.x, B.y)))

\* The end of the tracing loop: the line is stroked.
FieldStroke ==
  /\ fieldTrace.pc = "trace"
  /\ fieldTrace.broke \/ ~loopContinues(fieldTrace.step)
  /\ FieldStepTo("stroke", traceNext(objs, magnetsOf(objs, components), fieldTrace))

\* A bar magnet at a place, turned.
FieldMagnet(pos, rotation) ==
  [NewComponent("bar_magnet", pos.x, pos.y) EXCEPT !.rotation = rotation]

\* The second body of a world of SpecField: a magnet beside or below the
\* first, at rotation 0, 45 or 90 degrees, or an iron nail.
FieldSeconds ==
  { FieldMagnet(Vec(Fx(100) + d.x, Fx(100) + d.y), r) :
      d \in { Vec(Fx(100), 0), Vec(0, Fx(60)) }, r \in { 0, QUARTER_PI, HALF_PI } }
  \cup { NewComponent("iron_nail", Fx(200), Fx(100)) }

\* The worlds: one magnet at rotation 0 or 45 degrees, alone or with a
\* second body; and a world without a magnet.
FieldWorlds ==
  { << FieldMagnet(Vec(Fx(100), Fx(100)), r) >> : r \in { 0, QUARTER_PI } }
  \cup { << FieldMagnet(Vec(Fx(100), Fx(100)), r), c >> :
           r \in { 0, QUARTER_PI }, c \in FieldSeconds }
  \cup { << NewComponent("coin", Fx(100), Fx(100)) >> }

FieldInit ==
  /\ objs \in FieldWorlds
  /\ components = [i \in 1..Len(objs) |-> i]
  /\ isDragging = FALSE
  /\ draggedComponent = NULL
  /\ dragOffset = Vec(0, 0)
  /\ dragStartPosition = NoPosition
  /\ tapWindow = FALSE
  /\ longPressTimer = FALSE
  /\ pendingLongPress = NULL
  /\ orphanTimers = << >>
  /\ contextMenuTarget = NULL
  /\ op = [name |-> "init", subject |-> NULL]
  /\ nTicks = 0
  /\ nEvents = 0
  /\ fieldTrace = NoTrace

FieldNext == FieldDraw \/ FieldTraceStep \/ FieldStroke

SpecField == FieldInit /\ [][FieldNext]_vars

----------------------------------------------------------------------------
\* Properties.  Helpers first.

Bodies == 1..Len(objs)

SamePlace(a, b) == a.x = b.x /\ a.y = b.y
SamePose(a, b) == SamePlace(a, b) /\ a.rotation = b.rotation
SameVelocity(a, b) == a.vx = b.vx /\ a.vy = b.vy /\ a.angV = b.angV
AtRest(c) == c.vx = 0 /\ c.vy = 0 /\ c.angV = 0

\* Whether the pair overlaps, as resolveCollision sees it.
Touching(c1, c2) == satTest(getCorners(c1), getCorners(c2)).hit

----------------------------------------------------------------------------
\* C1: a tick never changes x, y or rotation of a body that is pinned during
\* the tick (the dragged body, or a body whose isStatic is true), whatever
\* forces act on it and whatever overlaps it; and resolveCollision on a pair
\* of two pinned bodies changes nothing.  (SpecLab)
C1_PinnedPoseKept ==
  [][ /\ op'.name = "tick" =>
           \A i \in Bodies :
             (objs[i].isStatic \/ i = draggedComponent) => SamePose(objs[i], objs'[i])
      /\ (op'.name = "resolve" /\ objs[1].isStatic /\ objs[2].isStatic) =>
           objs' = objs ]_vars

\* A tick has run on a pinned body that a moving, free body overlaps.
C1_Witness ==
  /\ op.name = "tick"
  /\ objs[1].isStatic /\ ~objs[2].isStatic
  /\ objs[2].vx # 0
  /\ Touching(objs[1], objs[2])

----------------------------------------------------------------------------
\* C2: in every state at the end of a tick, every body whose isStatic is
\* true has vx = 0, vy = 0 and angV = 0.  (Spec)
C2_PinnedAtRest ==
  op.name = "tick" => \A i \in Bodies : objs[i].isStatic => AtRest(objs[i])

\* A tick has run while a body is dragged, and another body is moving.
C2_Witness ==
  /\ op.name = "tick"
  /\ draggedComponent # NULL
  /\ objs[draggedComponent].isStatic
  /\ \E j \in Bodies : ~AtRest(objs[j])

----------------------------------------------------------------------------
\* C3: in every reachable state in which no body is dragged
\* (draggedComponent is null), no body of the collection has isStatic true.
\* (Spec)  The callback of the long-press timer sets draggedComponent to
\* null and leaves isStatic as the last tick set it; handleEnd then finds no
\* dragged body to release.
C3_PinnedOnlyWhileDragged ==
  draggedComponent = NULL =>
    \A k \in 1..Len(components) : ~objs[components[k]].isStatic

----------------------------------------------------------------------------
\* C4: for two free bar magnets, every pole pair in range yields the force
\* on the target at p2 and, on the source at p1, the force of the same
\* magnitude and the opposite direction; the force step leaves the total
\* linear momentum of the pair unchanged.  The suppression by mass ratio
\* does not arise between two bar magnets, whose masses are equal.  (SpecLab)
BothFreeMagnets(os) ==
  \A i \in 1..2 : os[i].type = "bar_magnet" /\ ~os[i].isStatic

OppositeCalls(calls, mi, oi, p1, p2) ==
  \/ calls = << >>
  \/ /\ Len(calls) = 2
     /\ calls[1].target = oi /\ calls[1].point = p2.pos
     /\ calls[2].target = mi /\ calls[2].point = p1.pos
     /\ calls[1].force.x + calls[2].force.x = 0
     /\ calls[1].force.y + calls[2].force.y = 0

Momentum(os) ==
  Vec(os[1].mass * os[1].vx + os[2].mass * os[2].vx,
      os[1].mass * os[1].vy + os[2].mass * os[2].vy)

C4_EqualAndOpposite ==
  [][ (op'.name = "forces" /\ BothFreeMagnets(objs)) =>
        /\ \A mi \in 1..2, a \in 1..2, b \in 1..2 :
             OppositeCalls(
               polePairCalls(mi, objs[mi], 3 - mi, objs[3 - mi],
                             getPoles(objs[mi])[a], getPoles(objs[3 - mi])[b]),
               mi, 3 - mi, getPoles(objs[mi])[a], getPoles(objs[3 - mi])[b])
        /\ reactionApplies(objs[1], objs[2])
        /\ Momentum(objs') = Momentum(objs) ]_vars

\* The force step has set two free bar magnets moving against each other.
C4_Witness ==
  /\ op.name = "forces"
  /\ BothFreeMagnets(objs)
  /\ objs[1].vx # 0
  /\ objs[1].vx + objs[2].vx = 0

----------------------------------------------------------------------------
\* C5: for every placement of two bar magnets, coincident poles included,
\* the force applied for a pole pair is at most 2000 in magnitude.  (SpecLab)
BoundedCalls(calls) ==
  \A k \in DOMAIN calls :
    Hypot(calls[k].force.x, calls[k].force.y) <= Fx(MAX_FORCE)

C5_ForceBounded ==
  (\A i \in 1..2 : objs[i].type = "bar_magnet") =>
    \A mi \in 1..2, a \in 1..2, b \in 1..2 :
      /\ Abs(poleForceMag(getPoles(objs[mi])[a], getPoles(objs[3 - mi])[b]))
           <= Fx(MAX_FORCE)
      /\ BoundedCalls(polePairCalls(mi, objs[mi], 3 - mi, objs[3 - mi],
                                    getPoles(objs[mi])[a], getPoles(objs[3 - mi])[b]))

\* The force step has run on two bar magnets whose N poles coincide.
C5_Witness ==
  /\ op.name = "forces"
  /\ \A i \in 1..2 : objs[i].type = "bar_magnet"
  /\ getPoles(objs[1])[1].pos = getPoles(objs[2])[1].pos

----------------------------------------------------------------------------
\* C6: for a nail or key and a pole of a bar magnet, of either sign, a force
\* applied to an end point of the object points from the end point toward
\* the pole: its dot product with (pole - end point) is positive.  (SpecLab)
MagnetAndIron(os) ==
  os[1].type = "bar_magnet" /\ os[2].type \in {"iron_nail", "key"}

TowardPole(calls, pt, pole) ==
  \A k \in DOMAIN calls :
    calls[k].force.x * (pole.pos.x - pt.x) + calls[k].force.y * (pole.pos.y - pt.y) > 0

C6_IronPulledToPole ==
  MagnetAndIron(objs) =>
    \A e \in 1..2, q \in 1..2 :
      TowardPole(ironForceCalls(2, endPoints(objs[2])[e], getPoles(objs[1])[q]),
                 endPoints(objs[2])[e], getPoles(objs[1])[q])

\* The force step has set a free nail or key moving, with a force from each
\* pole on its first end point.
C6_Witness ==
  /\ op.name = "forces"
  /\ MagnetAndIron(objs)
  /\ ~objs[2].isStatic /\ ~AtRest(objs[2])
  /\ \A q \in 1..2 :
       ironForceCalls(2, endPoints(objs[2])[1], getPoles(objs[1])[q]) # << >>

----------------------------------------------------------------------------
\* C7: satTest returns no collision for two boxes with a positive gap, and
\* for two overlapping boxes the true minimum penetration depth (the least
\* translation along an edge normal that separates them) with the axis on
\* which it occurs, also when one projection contains the other.  (SpecLab)
\* getOverlap returns the length of the intersection of the projections,
\* which for a contained projection is the length of the smaller one.

\* The translation along axis that separates the projections.
depthOn(poly1, poly2, axis) ==
  Min(project(poly1, axis).max - project(poly2, axis).min,
      project(poly2, axis).max - project(poly1, axis).min)

depthsOf(poly1, poly2) ==
  { depthOn(poly1, poly2, (getAxes(poly1) \o getAxes(poly2))[i]) : i \in 1..8 }

trueDepth(poly1, poly2) ==
  CHOOSE d \in depthsOf(poly1, poly2) : \A e \in depthsOf(poly1, poly2) : d <= e

\* Two unrotated boxes with a gap along x or along y.
AxisAlignedGap(c1, c2) ==
  /\ c1.rotation = 0 /\ c2.rotation = 0
  /\ \/ 2 * Abs(c1.x - c2.x) > c1.width + c2.width
     \/ 2 * Abs(c1.y - c2.y) > c1.height + c2.height

satAgrees(c1, c2, poly1, poly2, result) ==
  /\ (AxisAlignedGap(c1, c2) \/ trueDepth(poly1, poly2) < 0) => ~result.hit
  /\ result.hit =>
       /\ result.overlap = trueDepth(poly1, poly2)
       /\ depthOn(poly1, poly2, result.axis) = result.overlap

C7_SatTrueDepth ==
  satAgrees(objs[1], objs[2], getCorners(objs[1]), getCorners(objs[2]),
            satTest(getCorners(objs[1]), getCorners(objs[2])))

----------------------------------------------------------------------------
\* C8: for two overlapping free bodies of equal mass that approach head-on
\* (the relative velocity lies along the contact normal) with relative
\* speed at least 3.0 and closing speed above 1.0, resolveCollision leaves
\* the relative velocity along the contact normal at -0.2 times its value
\* before the call, to within one hundredth.  (SpecLab)
contactNormal(c1, c2) ==
  Vec2Norm(separation(c1, c2, satTest(getCorners(c1), getCorners(c2))))

alongNormal(c1, c2, normal) == Vec2Dot(Vec2Sub(Vel(c1), Vel(c2)), normal)

headOnAlong(c1, c2, normal) ==
  /\ alongNormal(c1, c2, normal) < 0 - Fx(1)
  /\ Vec2Sub(Vec2Sub(Vel(c1), Vel(c2)),
             Vec2Scale(normal, alongNormal(c1, c2, normal))) = Vec(0, 0)

HeadOn(c1, c2) ==
  /\ ~c1.isStatic /\ ~c2.isStatic
  /\ c1.mass = c2.mass
  /\ Touching(c1, c2)
  /\ relSpeed(c1, c2) >= Fx(WELD_SPEED)
  /\ headOnAlong(c1, c2, contactNormal(c1, c2))

C8_HeadOnRestitution ==
  [][ (op'.name = "resolve" /\ HeadOn(objs[1], objs[2])) =>
        Abs(alongNormal(objs'[1], objs'[2], contactNormal(objs[1], objs[2]))
            - RDiv((0 - RESTITUTION)
                   * alongNormal(objs[1], objs[2], contactNormal(objs[1], objs[2])),
                   SC)) <= 1 ]_vars

\* resolveCollision has turned two free bodies of equal mass, the first to
\* the left of the second, from approaching to parting.
C8_Witness ==
  /\ op.name = "resolve"
  /\ ~objs[1].isStatic /\ ~objs[2].isStatic
  /\ objs[1].mass = objs[2].mass
  /\ objs[1].x < objs[2].x
  /\ objs[1].vx < 0 /\ objs[2].vx > 0

----------------------------------------------------------------------------
\* C9: welding is idempotent: once resolveCollision has welded an
\* overlapping pair (relative speed below 3.0), resolveCollision on the same
\* pair changes neither body's vx, vy or angV.  (SpecLab)  The model rounds
\* the weighted average once; in IEEE arithmetic the second average of two
\* equal velocities can differ from them in the last place.
WeldCase(c1, c2) ==
  /\ ~(c1.isStatic /\ c2.isStatic)
  /\ Touching(c1, c2)
  /\ relSpeed(c1, c2) < Fx(WELD_SPEED)

keepsVelocity(c1, c2, again) ==
  SameVelocity(again.c1, c1) /\ SameVelocity(again.c2, c2)

----------------------------------------------------------------------------
\* A free body whose damped speed is below 0.2 and whose damped |angV| is
\* below 0.05, as is a body of speed 0.1 and angV 0.01.
Sleepy(c) ==
  /\ ~c.isStatic
  /\ Hypot(damp(c).vx, damp(c).vy) < 20
  /\ Abs(damp(c).angV) < 5

InsideWalls(c) ==
  /\ c.x >= Fx(MARGIN) /\ c.x <= Fx(CanvasWidth - MARGIN)
  /\ c.y >= Fx(MARGIN) /\ c.y <= Fx(CanvasHeight - MARGIN)

\* C10 as stated: a free body whose damped speed is below 0.2 and whose
\* damped |angV| is below 0.05 has vx, vy and angV exactly 0 after the
\* integrator step, and its position and rotation are unchanged by the step.
\* (SpecLab)  The bounds check of the same step moves a body that lies
\* outside the margin of the walls.
C10_SleepKeepsPose ==
  [][ op'.name = "integrate" =>
        \A i \in Bodies :
          Sleepy(objs[i]) => AtRest(objs'[i]) /\ SamePose(objs[i], objs'[i]) ]_vars

\* C10 amended: a free body whose damped speed is below 0.2 and whose
\* damped |angV| is below 0.05 has vx, vy and angV exactly 0 after the
\* integrator step and its rotation is unchanged; its position is unchanged
\* if it lies within the margin of the walls, and otherwise the step leaves
\* it on the margin.  (SpecLab)
C10_SleepStops ==
  [][ op'.name = "integrate" =>
        \A i \in Bodies :
          Sleepy(objs[i]) =>
            /\ AtRest(objs'[i])
            /\ objs'[i].rotation = objs[i].rotation
            /\ InsideWalls(objs'[i])
            /\ InsideWalls(objs[i]) => SamePlace(objs[i], objs'[i]) ]_vars

\* The integrator has run once on the world in which body 1 comes at speed
\* 0.1 and body 2 at speed 2.0 (which the drag takes to 1.8): body 1 is at
\* rest.
C10_Witness ==
  /\ op.name = "integrate"
  /\ nTicks = 1
  /\ ~objs[1].isStatic /\ AtRest(objs[1])
  /\ objs[2].vx = 0 - 180

----------------------------------------------------------------------------
\* A free body that starts the integrator step within the walls, moving
\* left along x at speed 2.0 or more, and whose advance takes it left of the
\* margin.
CrossesLeft(c) ==
  /\ ~c.isStatic
  /\ c.vy = 0 /\ c.vx <= 0 - Fx(2)
  /\ c.x >= Fx(MARGIN)
  /\ RDiv(c.vx * DRAG, SC) >= 0 - Fx(MAX_SPEED)
  /\ c.x + RDiv(c.vx * DRAG, SC) < Fx(MARGIN)

\* C11 as stated: a free body that crosses the left boundary (x < 20) in a
\* tick that it starts with velocity (-5, 0) ends the integrator step at
\* x = 20 with velocity (2.5, 0).  (SpecLab)  The step damps the velocity to
\* (-4.5, 0) before it advances the body and reflects it.
C11_BounceHalvesStart ==
  [][ op'.name = "integrate" =>
        \A i \in Bodies :
          (CrossesLeft(objs[i]) /\ objs[i].vx = 0 - Fx(5)) =>
            /\ objs'[i].x = Fx(MARGIN)
            /\ objs'[i].vx = 250 /\ objs'[i].vy = 0 ]_vars

\* C11 amended: a free body that crosses the left boundary (x < 20) in a
\* tick that it starts with velocity (vx, 0), of speed 2.0 or more and, once
\* damped, at most 15, ends the integrator step at x = 20 with velocity
\* (-0.5 * (0.9 * vx), 0): from (-5, 0) it is left with (2.25, 0).  (SpecLab)
C11_BounceHalvesDamped ==
  [][ op'.name = "integrate" =>
        \A i \in Bodies :
          CrossesLeft(objs[i]) =>
            /\ objs'[i].x = Fx(MARGIN)
            /\ objs'[i].vx = RDiv(RDiv(objs[i].vx * 90, 100) * (0 - 50), 100)
            /\ objs[i].vx = 0 - Fx(5) => objs'[i].vx = 225
            /\ objs'[i].vy = 0 ]_vars

\* The integrator has reflected a body off the left wall, from (-5, 0).
C11_Witness ==
  /\ op.name = "integrate"
  /\ nTicks = 1
  /\ ~objs[2].isStatic
  /\ objs[2].x = Fx(MARGIN) /\ objs[2].vx = 225 /\ objs[2].vy = 0
  /\ objs[1].x = Fx(MARGIN)

----------------------------------------------------------------------------
\* A bar magnet at rotation 0, at rest, and an iron nail to its right on the
\* same horizontal line, at most 100 units away and not touching it, at rest
\* or moving toward the magnet along the line; both free, none dragged.
PullScene(os) ==
  /\ draggedComponent = NULL
  /\ os[1].type = "bar_magnet" /\ os[2].type = "iron_nail"
  /\ ~os[1].isStatic /\ ~os[2].isStatic
  /\ os[1].rotation = 0 /\ os[2].rotation = 0
  /\ AtRest(os[1])
  /\ os[2].y = os[1].y
  /\ os[2].x > os[1].x /\ os[2].x - os[1].x <= Fx(100)
  /\ os[2].vx <= 0 /\ os[2].vy = 0 /\ os[2].angV = 0
  /\ ~Touching(os[1], os[2])

\* Whether the solver of the tick that starts in os finds the pair
\* overlapping: the bodies touch in that tick.
meetInTick(os) ==
  LET moved == updateMotion(magneticForces(os, components), components)
  IN  Touching(moved[1], moved[2])

\* The distance from end point number k of the nail to the nearest pole.
nearestPole(os, k) ==
  LET pt == endPoints(os[2])[k]
      poles == getPoles(os[1])
  IN  Min(Hypot(pt.x - poles[1].pos.x, pt.y - poles[1].pos.y),
          Hypot(pt.x - poles[2].pos.x, pt.y - poles[2].pos.y))

\* C12: with a bar magnet at rotation 0 and an iron nail 100 units to its
\* right on the same horizontal line and nothing else, on every tick until
\* the two touch the nail's x-velocity is negative after the tick and the
\* distance from each end point of the nail to its nearest pole is strictly
\* smaller than before the tick.  (SpecLab)
C12_NailPulledCloser ==
  [][ (op'.name = "tick" /\ PullScene(objs) /\ ~meetInTick(objs)) =>
        /\ objs'[2].vx < 0
        /\ \A k \in 1..2 : nearestPole(objs', k) < nearestPole(objs, k) ]_vars

\* A tick has pulled the nail, 100 units from the magnet and at rest, by the
\* capped 15 units toward the magnet, which it does not touch yet.
C12_Witness ==
  /\ op.name = "tick"
  /\ nTicks = 1
  /\ objs[1].type = "bar_magnet" /\ objs[2].type = "iron_nail"
  /\ ~objs[1].isStatic /\ AtRest(objs[1]) /\ objs[1].rotation = 0
  /\ objs[1].x = Fx(100)
  /\ objs[2].x = objs[1].x + Fx(100 - MAX_SPEED)
  /\ objs[2].vx = 0 - Fx(MAX_SPEED)
  /\ ~Touching(objs[1], objs[2])

----------------------------------------------------------------------------
\* C13: creating a body of a kind that is not one of bar_magnet, compass,
\* iron_nail, key, coin, eraser is rejected: the creation fails and the body
\* collection is unchanged.  (Spec)  The constructor gives such a body the
\* default size 60 x 60 and mass 1, and the drop handler pushes it.
C13_InvalidKindRejected ==
  [][ \A i \in 1..Len(objs') :
        (i > Len(objs) /\ objs'[i].type \notin Kinds) =>
          components' = components ]_vars

----------------------------------------------------------------------------
\* Whether body i is a member of the collection comps.
InCollection(i, comps) == \E k \in 1..Len(comps) : comps[k] = i

\* C14: after a confirmed clear the collection is empty, and no body that
\* existed before the clear is a member of the collection again, whatever
\* press, move, release, long-press, delete and tick events follow, also
\* when a drag was in progress at the clear: the clear leaves the collection
\* empty, and no step puts a body that is out of the collection back into
\* it.  (Spec)
C14_ClearedStaysGone ==
  [][ /\ op'.name = "clear" => components' = << >>
      /\ \A i \in 1..Len(objs) :
            ~InCollection(i, components) => ~InCollection(i, components') ]_vars

\* The collection was cleared during a drag, and the pointer has moved the
\* body that was being dragged: it is still out of the collection.
C14_Witness ==
  /\ op.name = "move"
  /\ draggedComponent # NULL
  /\ Len(objs) > 0
  /\ components = << >>

----------------------------------------------------------------------------
\* The applyForce calls of the unordered pair of magnets {1, 2} processed
\* once: for each of the four pole pairs (p1 of 1, p2 of 2), the force on 2
\* at p2 and its reaction on 1 at p1.
oncePerPair(os) ==
  polePairsFrom(1, os[1], 2, os[2], getPoles(os[1]), getPoles(os[2]), 1)

\* C16: in one tick every unordered pair {A, B} of bar magnets is processed
\* once: each of its four pole-pair forces is applied exactly once to B and
\* its reaction exactly once to A, so the velocity change of each magnet in
\* the tick is the sum of one force per pole pair divided by its mass.
\* (SpecLab)  magnets.forEach visits A with B as object and then B with A as
\* object, so each pole pair is processed twice.
C16_EachPairOnce ==
  [][ (op'.name = "forces" /\ BothFreeMagnets(objs)) =>
        /\ Len(forceCalls(objs, components)) = Len(oncePerPair(objs))
        /\ \A i \in 1..2 :
              SameVelocity(objs'[i], ApplyCalls(objs, oncePerPair(objs))[i]) ]_vars

----------------------------------------------------------------------------
\* An overlapping pair of which exactly one body is pinned, at relative
\* speed 3.0 or more (not welded).
OnePinnedUnwelded(c1, c2) ==
  /\ c1.isStatic # c2.isStatic
  /\ Touching(c1, c2)
  /\ relSpeed(c1, c2) >= Fx(WELD_SPEED)

\* The full separation vector of the pair: overlap * axis, from c2 to c1.
fullSeparation(c1, c2) == separation(c1, c2, satTest(getCorners(c1), getCorners(c2)))

\* Whether body after is body before moved by the vector (dx, dy), to
\* within one hundredth.
MovedBy(before, after, dx, dy) ==
  /\ Abs(after.x - (before.x + dx)) <= 1
  /\ Abs(after.y - (before.y + dy)) <= 1

\* C20: when resolveCollision handles an overlapping pair of which exactly
\* one body is pinned and which is not welded (relative speed >= 3.0), the
\* pinned body is not moved and the free body is moved by the full
\* separation vector (overlap * axis): the correction ratios sum to 1.
\* (SpecLab)  The ratio of the free body is the mass of the pinned body over
\* the total in which the pinned body counts as 10000, about one thousandth
\* or less.
C20_FreeBodyMovedFully ==
  [][ (op'.name = "resolve" /\ OnePinnedUnwelded(objs[1], objs[2])) =>
        IF objs[1].isStatic
        THEN /\ SamePlace(objs[1], objs'[1])
             /\ MovedBy(objs[2], objs'[2],
                        0 - fullSeparation(objs[1], objs[2]).x,
                        0 - fullSeparation(objs[1], objs[2]).y)
        ELSE /\ SamePlace(objs[2], objs'[2])
             /\ MovedBy(objs[1], objs'[1],
                        fullSeparation(objs[1], objs[2]).x,
                        fullSeparation(objs[1], objs[2]).y) ]_vars

----------------------------------------------------------------------------
\* The distance of two poles.
poleGap(p1, p2) == Hypot(p1.pos.x - p2.pos.x, p1.pos.y - p2.pos.y)

\* K * s1 * s2 / d^2 for poles p1, p2 at distance d > 0.
inverseSquare(p1, p2, d) ==
  RDiv(Charge(p1) * Charge(p2) * MAGNETIC_CONSTANT * SC * SC, RDiv(d * d, SC))

\* The force law of C17 for one pole pair at distance d, against the force
\* magnitude forceMag and the applyForce calls of the pair.
RangeLaw(p1, p2, d, forceMag, calls) ==
  /\ d <= Fx(15) =>
        /\ forceMag = 0
        /\ \A k \in DOMAIN calls : calls[k].force = Vec(0, 0)
  /\ d > Fx(300) => calls = << >>
  /\ (d > Fx(15) /\ d < Fx(40)) =>
        forceMag = RDiv(inverseSquare(p1, p2, d) * (d - Fx(15)), Fx(25))
  /\ (d >= Fx(40) /\ d <= Fx(300)) =>
        /\ forceMag = inverseSquare(p1, p2, d)
        /\ calls # << >>

C17_OnRamp ==
  /\ \A i \in 1..2 : objs[i].type = "bar_magnet"
  /\ poleGap(getPoles(objs[1])[1], getPoles(objs[2])[1]) > Fx(15)
  /\ poleGap(getPoles(objs[1])[1], getPoles(objs[2])[1]) < Fx(40)

\* Two bar magnets with a pole pair out of range (d > 300).
C17_OutOfRange ==
  /\ \A i \in 1..2 : objs[i].type = "bar_magnet"
  /\ poleGap(getPoles(objs[1])[1], getPoles(objs[2])[2]) > Fx(300)

----------------------------------------------------------------------------
\* The kinds on which no magnetic force acts.
NonMagnetic(c) == c.type \in {"compass", "coin", "eraser"}

\* The force step leaves the velocity of every compass, coin and eraser.
ForcesSpare(os, after) ==
  \A i \in 1..2 : NonMagnetic(os[i]) => SameVelocity(os[i], after[i])

\* A tick leaves body i of os at rest where it was.
StaysPut(os, after, i) == AtRest(after[i]) /\ SamePlace(os[i], after[i])

\* A world in which the two bodies do not overlap, before the tick and when
\* its solver runs.
NoOverlap(os) == ~Touching(os[1], os[2]) /\ ~meetInTick(os)

\* C18 as stated: the force step of a tick never changes the velocity or
\* angular velocity of a compass, coin or eraser; in a world where no two
\* bodies overlap, such a body at rest stays at rest at the same position,
\* wherever the magnets are.  (SpecLab)  The bounds check of the tick moves
\* a body that lies outside the margin of the walls onto the margin.
C18_NonMagneticStaysPut ==
  [][ /\ op'.name = "forces" => ForcesSpare(objs, objs')
      /\ (op'.name = "tick" /\ NoOverlap(objs)) =>
            \A i \in 1..2 :
              (NonMagnetic(objs[i]) /\ AtRest(objs[i])) => StaysPut(objs, objs', i) ]_vars

\* C18 amended: the force step of a tick never changes the velocity or
\* angular velocity of a compass, coin or eraser; in a world where no two
\* bodies overlap, such a body at rest within the margin of the walls stays
\* at rest at the same position, wherever the magnets are.  (SpecLab)
C18_NonMagneticStaysPutInside ==
  [][ /\ op'.name = "forces" => ForcesSpare(objs, objs')
      /\ (op'.name = "tick" /\ NoOverlap(objs)) =>
            \A i \in 1..2 :
              (NonMagnetic(objs[i]) /\ AtRest(objs[i]) /\ InsideWalls(objs[i]))
                => StaysPut(objs, objs', i) ]_vars

\* A tick has turned the needle of a compass 100 units from a bar magnet
\* along the field; the compass is at rest where it was.
C18_Witness ==
  /\ op.name = "tick"
  /\ nTicks = 1
  /\ objs[1].type = "bar_magnet" /\ objs[2].type = "compass"
  /\ ~objs[2].isStatic /\ AtRest(objs[2])
  /\ objs[2].x = Fx(200) /\ objs[2].y = Fx(100)
  /\ objs[2].needleAngle # 0

----------------------------------------------------------------------------
\* A body strictly within the margin of the walls: the bounds check of the
\* step that led to it has not repositioned it.
WithinWalls(c) ==
  /\ c.x > Fx(MARGIN) /\ c.x < Fx(CanvasWidth - MARGIN)
  /\ c.y > Fx(MARGIN) /\ c.y < Fx(CanvasHeight - MARGIN)

\* Whether the vector (ux, uy) has the direction of (vx, vy) or is zero, to
\* within the rounding of its components.
SameDirection(vx, vy, ux, uy) ==
  /\ Abs(vx * uy - vy * ux) <= Abs(vx) + Abs(vy)
  /\ vx * ux + vy * uy >= 0

\* The integrator step from body c to body after: the velocity it leaves is
\* at most MAX_SPEED, and a body that it leaves within the walls it has
\* advanced by that velocity, which has the direction of the velocity
\* before the step.
CappedAdvance(c, after) ==
  /\ Hypot(after.vx, after.vy) <= Fx(MAX_SPEED) + 2
  /\ WithinWalls(after) =>
        /\ after.x - c.x = after.vx /\ after.y - c.y = after.vy
        /\ Hypot(after.x - c.x, after.y - c.y) <= Fx(MAX_SPEED) + 2
        /\ SameDirection(c.vx, c.vy, after.vx, after.vy)

----------------------------------------------------------------------------
\* A line is being traced.
Tracing == fieldTrace.pc = "trace"

\* The seeds and the step count of a running drawFieldLines: the magnet in
\* hand contributes ten seeds, five on each pole face (the first five traced
\* forward from the face at -w/2, the last five backward from the face at
\* w/2), and no line has more than 100 steps.
TraceBounded ==
  Tracing =>
    /\ fieldTrace.mi \in 1..Len(magnetsOf(objs, components))
    /\ Len(fieldTrace.startPoints) = 10
    /\ \A k \in 1..10 : fieldTrace.startPoints[k].dirMult = (IF k <= 5 THEN 1 ELSE 0 - 1)
    /\ fieldTrace.k \in 1..10
    /\ fieldTrace.step \in 0..100

\* The magnitude of B at the current point of the trace, in thousandths.
currentField ==
  LET B == lineFieldSum(objs, magnetsOf(objs, components), 1, fieldTrace.curr, Vec(0, 0))
  IN  Hypot(B.x, B.y)

\* An iteration of the tracing loop: where the field is below 0.1 the
\* line ends there; elsewhere it grows by one step of length 10.
TraceStepLaw ==
  (Tracing /\ op'.name = "step") =>
    IF currentField < 100
    THEN fieldTrace'.broke /\ fieldTrace'.curr = fieldTrace.curr
                          /\ fieldTrace'.step = fieldTrace.step
    ELSE /\ ~fieldTrace'.broke
         /\ fieldTrace'.step = fieldTrace.step + 1
         /\ Abs(Hypot(fieldTrace'.curr.x - fieldTrace.curr.x,
                      fieldTrace'.curr.y - fieldTrace.curr.y) - Fx(10)) <= 6

\* A line that is left by break or after 100 steps is stroked, and the
\* next seed starts from step 0.
StrokeLaw ==
  (Tracing /\ op'.name = "stroke") =>
    /\ fieldTrace.broke \/ fieldTrace.step = 100
    /\ Tracing' => fieldTrace'.step = 0 /\ ~fieldTrace'.broke

\* The work left to a running drawFieldLines: the iterations left to the
\* line in hand, the seeds left to the magnet in hand, and the magnets left;
\* 0 once it has returned.
workLeft(t) ==
  IF t.pc = "idle" THEN 0
  ELSE 1 + (IF t.broke THEN 0 ELSE 101 - t.step)
         + 102 * ((10 - t.k) + 10 * (Len(magnetsOf(objs, components)) - t.mi))

\* Every step of a running drawFieldLines leaves less work, and a running
\* call can always take a step: it returns after finitely many steps.
WorkDecreases ==
  Tracing =>
    /\ workLeft(fieldTrace') < workLeft(fieldTrace)
    /\ workLeft(fieldTrace') >= 0
    /\ fieldTrace' # fieldTrace

C15_FullLength ==
  /\ Tracing
  /\ fieldTrace.step = 100 /\ ~fieldTrace.broke

----------------------------------------------------------------------------
\* A body that is not pinned and more than ten times as heavy as the other.
Dominates(c, other) == ~c.isStatic /\ c.mass > 10 * other.mass

\* The positional correction of the call on the pair: the separation vector,
\* or nothing on the welded path (relative speed below 3.0).
wholeCorrection(c1, c2) ==
  IF relSpeed(c1, c2) < Fx(3) THEN Vec(0, 0) ELSE fullSeparation(c1, c2)

\* Body h of the pair keeps x, y, vx and vy, and the other body is moved by
\* the whole correction (away from h).
HeavyKeptLightMoved(os, after, h) ==
  /\ SamePlace(os[h], after[h])
  /\ os[h].vx = after[h].vx /\ os[h].vy = after[h].vy
  /\ IF h = 1
     THEN MovedBy(os[2], after[2], 0 - wholeCorrection(os[1], os[2]).x,
                                   0 - wholeCorrection(os[1], os[2]).y)
     ELSE MovedBy(os[1], after[1], wholeCorrection(os[1], os[2]).x,
                                   wholeCorrection(os[1], os[2]).y)

\* C21 as stated: when a non-pinned body more than 10 times as heavy as the
\* other overlaps it, resolveCollision leaves the heavier body's x, y, vx and
\* vy unchanged on the welded and on the impulse path, and the lighter body
\* absorbs the whole positional correction.  (SpecLab)  A lighter body that
\* is pinned is not moved, and on the welded path it counts as mass 100000
\* and gives the heavier body its velocity.
C21_HeavyUnmoved ==
  [][ (op'.name = "resolve" /\ Touching(objs[1], objs[2])) =>
        \A h \in 1..2 :
          Dominates(objs[h], objs[3 - h]) => HeavyKeptLightMoved(objs, objs', h) ]_vars

\* C21 amended: when a non-pinned body more than 10 times as heavy as the
\* other overlaps it and the lighter body is not pinned either,
\* resolveCollision leaves the heavier body's x, y, vx and vy unchanged on
\* the welded and on the impulse path, and the lighter body is moved by the
\* whole positional correction (the separation vector on the impulse path,
\* nothing on the welded path).  (SpecLab)
C21_HeavyUnmovedFreeLight ==
  [][ (op'.name = "resolve" /\ Touching(objs[1], objs[2])) =>
        \A h \in 1..2 :
          (Dominates(objs[h], objs[3 - h]) /\ ~objs[3 - h].isStatic) =>
            HeavyKeptLightMoved(objs, objs', h) ]_vars

\* resolveCollision has pushed a free nail out of a free bar magnet that ran
\* into it at 3.0: the magnet kept its velocity, the nail was thrown back.
C21_Witness ==
  /\ op.name = "resolve"
  /\ objs[1].type = "bar_magnet" /\ objs[2].type = "iron_nail"
  /\ ~objs[1].isStatic /\ ~objs[2].isStatic
  /\ objs[1].vx = 300
  /\ objs[2].vx > 300
  /\ objs[2].x - objs[1].x = Fx(80)

----------------------------------------------------------------------------
\* An overlapping pair that resolveCollision handles, at relative speed
\* below 3.0.
SlowOverlap(c1, c2) ==
  /\ ~(c1.isStatic /\ c2.isStatic)
  /\ Touching(c1, c2)
  /\ Hypot(c1.vx - c2.vx, c1.vy - c2.vy) < Fx(3)

\* The bodies of a tick as the integrator leaves them to the solver.
beforeSolver(os, comps, dragged) ==
  updateMotion(
    magneticForces(updateCompassNeedles(resetDragged(os, dragged), comps), comps),
    comps)

\* Both bodies are where they were, and the boxes overlap as before.
PlacesKept(os, after) ==
  /\ \A i \in 1..2 : SamePose(os[i], after[i])
  /\ satTest(getCorners(after[1]), getCorners(after[2]))
       = satTest(getCorners(os[1]), getCorners(os[2]))

\* The solver, given the bodies os, leaves a slow overlapping pair in place.
KeptIfSlow(os, after) == SlowOverlap(os[1], os[2]) => PlacesKept(os, after)

\* C22: when resolveCollision handles an overlapping pair whose relative
\* velocity has magnitude below 3.0, it changes neither body's x or y, and
\* the overlap of the two boxes after the call is the same as before it;
\* this holds for both iterations of the solver in a tick that the pair
\* enters below the threshold, and for every later tick.  (SpecLab)
C22_WeldKeepsPlaces ==
  [][ /\ op'.name = "resolve" => KeptIfSlow(objs, objs')
      /\ op'.name = "tick" =>
           KeptIfSlow(beforeSolver(objs, components, draggedComponent), objs') ]_vars

\* A tick has ended with two free bodies still overlapping and moving
\* together: the solver welded them and did not separate them.
C22_Witness ==
  /\ op.name = "tick"
  /\ ~objs[1].isStatic /\ ~objs[2].isStatic
  /\ Touching(objs[1], objs[2])
  /\ objs[1].vx = objs[2].vx /\ objs[1].vy = objs[2].vy
  /\ objs[1].vx # 0

----------------------------------------------------------------------------
\* The mass a body counts for in the weld: 100000 if pinned.
weldMass(c) == IF c.isStatic THEN Fx(100000) ELSE c.mass

\* Whether v is the common velocity component of v1 and v2 for the masses
\* m1 and m2: the heavier body's if the ratio exceeds 10, else the
\* mass-weighted average to within half a hundredth.
IsCommon(v, v1, v2, m1, m2) ==
  IF m1 > 10 * m2 THEN v = v1
  ELSE IF m2 > 10 * m1 THEN v = v2
  ELSE 2 * Abs(v * (m1 + m2) - (v1 * m1 + v2 * m2)) <= m1 + m2

\* Body i of the pair after the weld: a pinned body as it was, a free body
\* at the common velocity and not turning.
Welded(os, after, i) ==
  IF os[i].isStatic THEN SameVelocity(os[i], after[i])
  ELSE /\ IsCommon(after[i].vx, os[1].vx, os[2].vx, weldMass(os[1]), weldMass(os[2]))
       /\ IsCommon(after[i].vy, os[1].vy, os[2].vy, weldMass(os[1]), weldMass(os[2]))
       /\ after[i].angV = 0

\* C23: when resolveCollision handles an overlapping pair with relative
\* speed below 3.0, afterwards every non-pinned body of the pair has the
\* same linear velocity (the mass-weighted average, or the heavier body's
\* velocity when the mass ratio exceeds 10, a pinned body counting as mass
\* 100000) and angular velocity 0; the velocities are the common velocity
\* itself, with no restitution or friction impulse added.  (SpecLab)
C23_WeldCommonVelocity ==
  [][ (op'.name = "resolve" /\ SlowOverlap(objs[1], objs[2])) =>
        /\ \A i \in 1..2 : Welded(objs, objs', i)
        /\ (~objs[1].isStatic /\ ~objs[2].isStatic) =>
              (objs'[1].vx = objs'[2].vx /\ objs'[1].vy = objs'[2].vy) ]_vars

\* resolveCollision has welded a free nail to a free bar magnet: the nail,
\* which moved against the magnet, now has the magnet's velocity.
C23_Witness ==
  /\ op.name = "resolve"
  /\ objs[1].type = "bar_magnet" /\ objs[2].type = "iron_nail"
  /\ ~objs[1].isStatic /\ ~objs[2].isStatic
  /\ Touching(objs[1], objs[2])
  /\ objs[1].vx = 100 /\ objs[2].vx = 100
  /\ objs[1].angV = 0 /\ objs[2].angV = 0

----------------------------------------------------------------------------
\* C24: at the end of every complete tick (after the collision solver has
\* run), the centre of every non-pinned body lies within the margin
\* rectangle 20 <= x <= width - 20 and 20 <= y <= height - 20.  (SpecLab)
\* The solver runs after the bounds check and moves bodies by the
\* separation vector without regard to the walls.
C24_InsideMarginAfterTick ==
  op.name = "tick" =>
    \A i \in 1..2 :
      ~objs[i].isStatic =>
        /\ Fx(20) <= objs[i].x /\ objs[i].x <= Fx(CanvasWidth - 20)
        /\ Fx(20) <= objs[i].y /\ objs[i].y <= Fx(CanvasHeight - 20)

----------------------------------------------------------------------------
\* The body as the integrator has advanced it, before the bounds check.
beforeBounce(c) == advance(capSpeed(sleep(damp(c))))

\* After a clamp to a wall, the velocity component normal to that wall does
\* not point out of the canvas.
NotOutward(pre, after) ==
  /\ pre.x < Fx(20) => after.vx >= 0
  /\ pre.x > Fx(CanvasWidth - 20) => after.vx <= 0
  /\ pre.y < Fx(20) => after.vy >= 0
  /\ pre.y > Fx(CanvasHeight - 20) => after.vy <= 0

\* C27: whenever the integrator clamps a body to a wall margin in a tick,
\* the velocity component normal to that wall does not point out of the
\* canvas after the clamp (vx >= 0 after a left-wall clamp, vx <= 0 after a
\* right-wall clamp, likewise vy for top and bottom), also for a body that
\* was outside the margin and moving inward.  (SpecLab)  The bounds check
\* multiplies the component by -0.5 whatever its sign.
C27_ClampNotOutward ==
  [][ op'.name = "integrate" =>
        \A i \in 1..2 :
          ~objs[i].isStatic => NotOutward(beforeBounce(objs[i]), objs'[i]) ]_vars

----------------------------------------------------------------------------
\* The calls of one pole pair give the source magnet mi the whole reaction:
\* none out of range; for a free source the force on the target and its
\* negation on the source; for a pinned source the force on the target.
FullReaction(calls, mi, free) ==
  \/ calls = << >>
  \/ /\ free
     /\ Len(calls) = 2
     /\ calls[2].target = mi
     /\ calls[2].force = Vec(0 - calls[1].force.x, 0 - calls[1].force.y)
  \/ /\ ~free
     /\ Len(calls) = 1

\* The force step on source magnet m (id mi) and target magnet o (id oi).
MagnetPairFull(mi, m, oi, o) ==
  /\ m.mass = Fx(10) /\ o.mass = Fx(10)
  /\ ~(10 * o.mass < m.mass)
  /\ \A a \in 1..2, b \in 1..2 :
       FullReaction(polePairCalls(mi, m, oi, o, getPoles(m)[a], getPoles(o)[b]),
                    mi, ~m.isStatic)

\* C28: in every reachable state the magnet-magnet reaction suppression
\* never triggers: both bodies of a magnet-magnet interaction are bar
\* magnets of mass 10, so the mass ratio is 1, and for every pole pair in
\* range every non-pinned source magnet receives the full reaction force.
\* (Spec)
C28_ReactionNeverSuppressed ==
  \A ki \in 1..Len(components), kj \in 1..Len(components) :
    (/\ ki # kj
     /\ objs[components[ki]].type = "bar_magnet"
     /\ objs[components[kj]].type = "bar_magnet") =>
      MagnetPairFull(components[ki], objs[components[ki]],
                     components[kj], objs[components[kj]])

\* A tick has run on two free bar magnets in range of each other: every
\* pole pair, taken from either magnet, gave a force and a reaction.
C28_Witness ==
  /\ op.name = "tick"
  /\ Len(components) = 2
  /\ \A k \in 1..2 : objs[components[k]].type = "bar_magnet"
                       /\ ~objs[components[k]].isStatic
  /\ Len(forceCalls(objs, components)) = 16

----------------------------------------------------------------------------
\* C30: at the end of every complete tick, after the two iterations of the
\* collision solver, every body's linear speed is at most 15 (MAX_SPEED),
\* also that of a light body that a body more than 10 times as heavy has
\* just hit.  (SpecLab)  The cap is part of the integrator; the impulses of
\* the solver come after it.
C30_SpeedCappedAfterTick ==
  op.name = "tick" =>
    \A i \in 1..2 : Hypot(objs[i].vx, objs[i].vy) <= Fx(15) + 2

----------------------------------------------------------------------------
\* C25: in every reachable state the dragged body is a member of the body
\* collection: draggedComponent is either null or an element of
\* components, also after a context-menu delete, a confirmed clear, or a
\* pointer release that never reaches the canvas.  (Spec)  Neither the
\* delete entry nor the clear button looks at draggedComponent.
C25_DraggedInCollection ==
  draggedComponent # NULL => InCollection(draggedComponent, components)

----------------------------------------------------------------------------
\* The sequence comps without the body c.
Without(comps, c) == SelectSeq(comps, LAMBDA i : i # c)

\* No body occurs twice in comps.
NoDuplicate(comps) ==
  \A k1 \in 1..Len(comps), k2 \in 1..Len(comps) : comps[k1] = comps[k2] => k1 = k2

\* A press that hit body c: c is the last element, the other bodies keep
\* their order, and no body is added, removed, duplicated or changed.
PressedOnTop(c) ==
  /\ components' # << >>
  /\ components'[Len(components')] = c
  /\ Without(components', c) = Without(components, c)
  /\ Len(components') = Len(components)
  /\ NoDuplicate(components')
  /\ objs' = objs

----------------------------------------------------------------------------
\* The number of long-press timers pending.
timersPending(pending, orphans) ==
  Len(orphans) + (IF pending # NULL THEN 1 ELSE 0)

\* At most one long-press timer is pending, and one is pending only while
\* the press that started it is held: the body pressed is being dragged.
OneTimerOfHeldPress ==
  /\ timersPending(pendingLongPress, orphanTimers) <= 1
  /\ timersPending(pendingLongPress, orphanTimers) = 1 =>
        /\ pendingLongPress # NULL /\ longPressTimer
        /\ isDragging /\ draggedComponent = pendingLongPress

\* handleMove sees the pointer more than 10 units from the press position
\* of the press that is held; the pointer is where the move puts the
\* dragged body, plus dragOffset.
MovedFar ==
  /\ op'.name = "move"
  /\ isDragging /\ draggedComponent # NULL
  /\ Hypot(objs'[draggedComponent].x + dragOffset.x - dragStartPosition.x,
           objs'[draggedComponent].y + dragOffset.y - dragStartPosition.y) > Fx(10)

\* C26: the long-press context menu opens only for a press that is still
\* held and has not moved more than 10 units: at most one long-press timer
\* is pending at any time; once handleEnd has run for a press, or
\* handleMove has seen the pointer more than 10 units from the press
\* position, no timer is pending, so the callback of that press never
\* fires; and the callback that fires is that of the press held.  (Spec)
C26_LongPressOnlyWhileHeld ==
  /\ []OneTimerOfHeldPress
  /\ [][ /\ op'.name = "end" => timersPending(pendingLongPress', orphanTimers') = 0
         /\ MovedFar => timersPending(pendingLongPress', orphanTimers') = 0
         /\ op'.name = "longPress" =>
               /\ pendingLongPress # NULL /\ isDragging
               /\ op'.subject = draggedComponent
               /\ timersPending(pendingLongPress', orphanTimers') = 0 ]_vars

\* handleMove has cancelled the long press of a press that is still held:
\* the body is dragged more than 10 units from the press position and no
\* timer is pending.
C26_Witness ==
  /\ op.name = "move"
  /\ isDragging /\ draggedComponent # NULL
  /\ ~longPressTimer
  /\ timersPending(pendingLongPress, orphanTimers) = 0
  /\ Hypot(objs[draggedComponent].x + dragOffset.x - dragStartPosition.x,
           objs[draggedComponent].y + dragOffset.y - dragStartPosition.y) > Fx(10)

====
